---- MODULE Spec2Model ----
(***************************************************************************)
(* Load / represent engine of py_ts_attrs (field_processing.py, dto.py,    *)
(* datetime.py, enums.py, types.py).                                       *)
(*                                                                         *)
(* Python values are records [t, n, s, xs]: t is the runtime type's name,  *)
(* n an integer payload, s the characters of a string, xs the elements of  *)
(* a container.  Declared types are records [k, args].                     *)
(***************************************************************************)
EXTENDS Integers, Sequences, FiniteSets, TLC

\* ---------------------------------------------------------------- bounds
\* largest integer among the raw inputs
MaxInt == 2
\* longest list of integers among the raw inputs
MaxLen == 3
\* the most ApiDataTS.process calls the stack holds
MaxDepth == 3

\* ---------------------------------------------------------------- values
V(t, n, s, xs) == [t |-> t, n |-> n, s |-> s, xs |-> xs]

None == V("NoneType", 0, <<>>, <<>>)
\* attr.NOTHING, the "no default" sentinel of attrs
NOTHING == V("NOTHING", 0, <<>>, <<>>)
IntV(k) == V("int", k, <<>>, <<>>)
BoolV(b) == V("bool", IF b THEN 1 ELSE 0, <<>>, <<>>)
StrV(chars) == V("str", 0, chars, <<>>)
\* a float that is a multiple of 1/2 carries n = 2 * value and s = <<>>;
\* the double nearest to the non-dyadic decimal n/10 carries s = <<"~">>
FloatV(halves) == V("float", halves, <<>>, <<>>)
NearFloatV(tenths) == V("float", tenths, <<"~">>, <<>>)
\* Decimal n/10; s = <<"~">> marks the exact binary expansion of the double
\* nearest to n/10, which is a different Decimal than n/10 itself
DecimalV(tenths) == V("Decimal", tenths, <<>>, <<>>)
BinDecimalV(tenths) == V("Decimal", tenths, <<"~">>, <<>>)
ListV(xs) == V("list", 0, <<>>, xs)
TupleV(xs) == V("tuple", 0, <<>>, xs)
\* a dict is the sequence of its items in insertion order
ItemV(key, val) == V("item", 0, <<>>, <<key, val>>)
DictV(items) == V("dict", 0, <<>>, items)
\* an enum member: t is the enum class, s the member's name
MemberV(enumName, member) == V(enumName, 0, member, <<>>)
DateV(y, m, d) == V("date", 0, <<>>, <<IntV(y), IntV(m), IntV(d)>>)
DateTimeV(y, m, d, hh, mm, ss) ==
    V("datetime", 0, <<>>, <<IntV(y), IntV(m), IntV(d), IntV(hh), IntV(mm), IntV(ss)>>)
\* an instance of a record class: t is the class, xs its attributes
InstV(clsName, items) == V(clsName, 0, <<>>, items)

\* ----------------------------------------------------------------- types
T(k) == [k |-> k, args |-> <<>>]
G(k, args) == [k |-> k, args |-> args]
NoneType == T("NoneType")
\* typing.Optional flattens a union argument
Optional(t) == IF t.k = "Union" THEN G("Union", Append(t.args, NoneType))
               ELSE G("Union", <<t, NoneType>>)

\* the characters of the strings the model uses
active == <<"a", "c", "t", "i", "v", "e">>
Active == <<"A", "c", "t", "i", "v", "e">>
closed == <<"c", "l", "o", "s", "e", "d">>
fname == <<"f">>
gname == <<"g">>

\* enum classes of the schema: Status(str, Enum), Level(int, Enum) and
\* Color(Enum), which has no str/int mixin
EnumNames == {"Status", "Level", "Color"}
EnumBacking(e) ==
    CASE e = "Status" -> "str"
      [] e = "Level" -> "int"
      [] OTHER -> "none"
\* _member_map_ in definition order: <<member name, member value>>
EnumMembers(e) ==
    CASE e = "Status" -> << <<<<"A">>, StrV(active)>>, <<<<"C">>, StrV(closed)>>, <<<<"E">>, StrV(<<>>)>> >>
      [] e = "Level" -> << <<<<"L">>, IntV(1)>>, <<<<"H">>, IntV(2)>>, <<<<"Z">>, IntV(0)>> >>
      [] OTHER -> << <<<<"R">>, IntV(1)>> >>
IsEnumMember(v) == v.t \in EnumNames
\* member.value
MemberValue(v) ==
    LET ms == EnumMembers(v.t)
        i == CHOOSE j \in 1..Len(ms) : ms[j][1] = v.s
    IN ms[i][2]
MembersOf(e) == {MemberV(e, EnumMembers(e)[i][1]) : i \in 1..Len(EnumMembers(e))}

\* ------------------------------------------------ Python built-in behaviour
\* bool(v)
Truthy(v) ==
    CASE v.t = "NoneType" -> FALSE
      [] v.t \in {"int", "bool", "float", "Decimal"} -> v.n # 0
      [] v.t = "str" -> v.s # <<>>
      [] v.t \in {"list", "tuple", "dict"} -> v.xs # <<>>
      [] v.t \in EnumNames /\ EnumBacking(v.t) = "str" -> MemberValue(v).s # <<>>
      [] v.t \in EnumNames /\ EnumBacking(v.t) = "int" -> MemberValue(v).n # 0
      [] OTHER -> TRUE

\* isinstance(v, str): a str or a member of a str-backed enum
IsInstanceStr(v) == v.t = "str" \/ (v.t \in EnumNames /\ EnumBacking(v.t) = "str")
\* the characters of an instance of str
StrOf(v) == IF v.t = "str" THEN v.s ELSE MemberValue(v).s

\* float(v) of an int
FloatOfInt(v) == FloatV(2 * v.n)
\* int(v) of a float: truncation toward zero
IntOfFloat(v) ==
    LET den == IF v.s = <<>> THEN 2 ELSE 10
        mag == (IF v.n < 0 THEN 0 - v.n ELSE v.n) \div den
    IN IntV(IF v.n < 0 THEN 0 - mag ELSE mag)
\* float(v) of a Decimal: exact when the Decimal is a multiple of 1/2,
\* the nearest double otherwise
FloatOfDecimal(v) ==
    IF v.s # <<>> THEN NearFloatV(v.n)
    ELSE IF v.n % 5 = 0 THEN FloatV(v.n \div 5) ELSE NearFloatV(v.n)

Digits == <<"0", "1", "2", "3", "4", "5", "6", "7", "8", "9">>
IsDigit(c) == \E i \in 1..10 : Digits[i] = c
DigitVal(c) == (CHOOSE i \in 1..10 : Digits[i] = c) - 1
AllDigits(cs) == \A i \in 1..Len(cs) : IsDigit(cs[i])
RECURSIVE ToInt(_)
\* int(text) of a string of digits
ToInt(cs) ==
    IF cs = <<>> THEN 0
    ELSE 10 * ToInt(SubSeq(cs, 1, Len(cs) - 1)) + DigitVal(cs[Len(cs)])
\* "%02d"
TwoDigits(k) == <<Digits[((k \div 10) % 10) + 1], Digits[(k % 10) + 1]>>

\* the digits "d" or "d.d" of a decimal literal; anything else is not a number
IsDecimalLiteral(cs) ==
    \/ Len(cs) = 1 /\ IsDigit(cs[1])
    \/ Len(cs) = 3 /\ IsDigit(cs[1]) /\ cs[2] = "." /\ IsDigit(cs[3])
DecimalLiteral(cs) ==
    IF Len(cs) = 1 THEN DecimalV(10 * DigitVal(cs[1]))
    ELSE DecimalV(10 * DigitVal(cs[1]) + DigitVal(cs[3]))

\* Decimal(v): <<exception name, value>>
DecimalOf(v) ==
    CASE v.t \in {"int", "bool"} -> <<"", DecimalV(10 * v.n)>>
      [] v.t = "float" /\ v.s = <<>> -> <<"", DecimalV(5 * v.n)>>
      [] v.t = "float" /\ v.s # <<>> -> <<"", BinDecimalV(v.n)>>
      [] v.t = "Decimal" -> <<"", v>>
      [] IsInstanceStr(v) ->
            IF IsDecimalLiteral(StrOf(v)) THEN <<"", DecimalLiteral(StrOf(v))>>
            ELSE <<"InvalidOperation", None>>
      [] v.t \in {"list", "tuple"} -> <<"ValueError", None>>
      [] v.t \in EnumNames /\ EnumBacking(v.t) = "int" -> <<"", DecimalV(10 * MemberValue(v).n)>>
      [] OTHER -> <<"TypeError", None>>

\* ---------------------------------------------------------- datetime.py
\* the century parse_date puts in front of the year digits
YearPrefix == <<"2", "0">>

IsLeap(y) == (y % 4 = 0 /\ y % 100 # 0) \/ y % 400 = 0
DaysInMonth(y, m) ==
    CASE m \in {4, 6, 9, 11} -> 30
      [] m = 2 -> IF IsLeap(y) THEN 29 ELSE 28
      [] OTHER -> 31
\* date(y, m, d) accepts its arguments
ValidDate(y, m, d) ==
    y \in 1..9999 /\ m \in 1..12 /\ d \in 1..DaysInMonth(y, m)
\* datetime(y, m, d, hh, mm) accepts its arguments
ValidDateTime(y, m, d, hh, mm) == ValidDate(y, m, d) /\ hh \in 0..23 /\ mm \in 0..59

RECURSIVE SplitOn(_, _)
\* text.split(sep)
SplitOn(cs, sep) ==
    IF \A i \in 1..Len(cs) : cs[i] # sep THEN <<cs>>
    ELSE LET i == CHOOSE j \in 1..Len(cs) :
                      cs[j] = sep /\ \A h \in 1..(j - 1) : cs[h] # sep
         IN <<SubSeq(cs, 1, i - 1)>> \o SplitOn(SubSeq(cs, i + 1, Len(cs)), sep)

\* one (\d{1,2}) group
IsGroup(cs) == Len(cs) \in 1..2 /\ AllDigits(cs)
\* PARSE_DATE_RE matches the whole text
MatchesDate(cs) ==
    LET parts == SplitOn(cs, "/")
    IN Len(parts) = 3 /\ \A i \in 1..3 : IsGroup(parts[i])
\* PARSE_DATETIME_RE matches the whole text
MatchesDateTime(cs) ==
    LET halves == SplitOn(cs, " ")
    IN /\ Len(halves) = 2
       /\ MatchesDate(halves[1])
       /\ LET hm == SplitOn(halves[2], ":")
          IN Len(hm) = 2 /\ IsGroup(hm[1]) /\ IsGroup(hm[2])

\* parse_date(formatted_value, with_time): <<exception name, value>>
parse_date(v, with_time) ==
    IF ~IsInstanceStr(v) THEN <<"TypeError", None>>
    ELSE LET cs == StrOf(v) IN
      IF with_time
      THEN IF ~MatchesDateTime(cs) THEN <<"", None>>
           ELSE LET halves == SplitOn(cs, " ")
                    g == SplitOn(halves[1], "/")
                    hm == SplitOn(halves[2], ":")
                    y == ToInt(YearPrefix \o g[3])
                    m == ToInt(g[1])
                    d == ToInt(g[2])
                    hh == ToInt(hm[1])
                    mm == ToInt(hm[2])
                IN IF ValidDateTime(y, m, d, hh, mm)
                   THEN <<"", DateTimeV(y, m, d, hh, mm, 0)>>
                   ELSE <<"ValueError", None>>
      ELSE IF ~MatchesDate(cs) THEN <<"", None>>
           ELSE LET g == SplitOn(cs, "/")
                    y == ToInt(YearPrefix \o g[3])
                    m == ToInt(g[1])
                    d == ToInt(g[2])
                IN IF ValidDate(y, m, d) THEN <<"", DateV(y, m, d)>>
                   ELSE <<"ValueError", None>>

\* fix_day_month: drop one leading zero
fix_day_month(cs) == IF cs[1] = "0" THEN SubSeq(cs, 2, Len(cs)) ELSE cs
\* format_date(input_date, show_time) with skip_current_year left False:
\* <<exception name, value>>
format_date(v, show_time) ==
    IF v.t \notin {"date", "datetime"} THEN <<"AttributeError", None>>
    ELSE LET y == v.xs[1].n
             m == v.xs[2].n
             d == v.xs[3].n
             hh == IF v.t = "datetime" THEN v.xs[4].n ELSE 0
             mm == IF v.t = "datetime" THEN v.xs[5].n ELSE 0
             day == fix_day_month(TwoDigits(m)) \o <<"/">> \o fix_day_month(TwoDigits(d))
                      \o <<"/">> \o TwoDigits(y % 100)
         IN <<"", StrV(IF show_time
                       THEN day \o <<" ">> \o TwoDigits(hh) \o <<":">> \o TwoDigits(mm)
                       ELSE day)>>

\* ------------------------------------------------------------- enums.py
\* parse_enum(enum_cls, value): the member, or None
parse_enum(e, value) ==
    LET ms == EnumMembers(e)
        hits == {i \in 1..Len(ms) : ms[i][2] = value}
    IN IF Truthy(value) /\ hits # {}
       THEN LET i == CHOOSE j \in hits : \A h \in hits : h <= j
                member == MemberV(e, ms[i][1])
            IN IF Truthy(member) THEN member ELSE None
       ELSE None

\* ------------------------------------------------------------- types.py
GenericKinds == {"Union", "List", "Tuple", "Dict", "Partial"}
\* getattr(field_type, "__origin__", None)
Origin(t) == IF t.k \in GenericKinds THEN t.k ELSE "None"
\* the attrs constructor of FieldDefinition: forced = <<>> stands for
\* forced_type = None, origin = "None" for origin = None
FieldDefinitionOf(name, type, origin, args, default, forced) ==
    [name |-> name, type |-> type, origin |-> origin, args |-> args,
     default |-> default, forced |-> forced]
\* getattr(field_type, "__args__", []): a ForwardRef carries its referent in
\* __forward_arg__ and has no __args__
Args(t) == IF t.k = "ForwardRef" THEN <<>> ELSE t.args
\* a FieldDefinition with the origin and the args that create reads from
\* the declared type
FieldDefinition(name, type, default, forced) ==
    FieldDefinitionOf(name, type, Origin(type), Args(type), default, forced)
\* FieldDefinition.create with an explicit default_value
CreateWithDefault(name, type, default) == FieldDefinition(name, type, default, <<>>)
\* FieldDefinition.create without default_value: the default is None
Create(name, type) == FieldDefinition(name, type, None, <<>>)

\* record classes of the schema that other records nest
RecordNames == {"Inner", "Rec"}
\* one attrs attribute
Attribute(name, type, default, init) ==
    [name |-> name, type |-> type, default |-> default, init |-> init]
\* a record class: custom_load maps a field name to "None" (declared with
\* the value None) or "get" (a loader returning input_data.get(name));
\* CUSTOM_REPRESENTATION is empty unless WithRepresentation sets it
RecordClass(name, fields, custom_load, omit, force_none) ==
    [name |-> name, fields |-> fields, custom_load |-> custom_load,
     omit |-> omit, force_none |-> force_none,
     custom_representation |-> [x \in {} |-> "typed"]]
NoCustom == [x \in {} |-> "None"]
\* the class with CUSTOM_REPRESENTATION = m; m maps a field name to "typed",
\* the representer `def r(value) -> str: return "x"`, or to "untyped", the
\* same function without a return annotation
WithRepresentation(c, m) == [c EXCEPT !.custom_representation = m]
ClassDef(name) ==
    RecordClass("Inner", <<Attribute(fname, T("int"), NOTHING, TRUE)>>, NoCustom, {}, {})

\* cls.__name__
TypeName(k) ==
    CASE k = "Status" -> <<"S", "t", "a", "t", "u", "s">>
      [] k = "Level" -> <<"L", "e", "v", "e", "l">>
      [] k = "Color" -> <<"C", "o", "l", "o", "r">>
      [] k = "Inner" -> <<"I", "n", "n", "e", "r">>
      [] k = "Rec" -> <<"R", "e", "c">>
      [] k = "Decimal" -> <<"D", "e", "c", "i", "m", "a", "l">>
      [] k = "datetime" -> <<"d", "a", "t", "e", "t", "i", "m", "e">>
      [] k = "date" -> <<"d", "a", "t", "e">>
      [] k = "float" -> <<"f", "l", "o", "a", "t">>
      [] k = "bool" -> <<"b", "o", "o", "l">>
      [] k = "int" -> <<"i", "n", "t">>
      [] k = "str" -> <<"s", "t", "r">>
      [] k = "dict" -> <<"d", "i", "c", "t">>
      [] k = "bytes" -> <<"b", "y", "t", "e", "s">>
      [] k = "Any" -> <<"A", "n", "y">>
      [] k = "List" -> <<"L", "i", "s", "t">>
      [] k = "Tuple" -> <<"T", "u", "p", "l", "e">>
      [] k = "Dict" -> <<"D", "i", "c", "t">>
      [] k = "Union" -> <<"U", "n", "i", "o", "n">>
      [] OTHER -> <<"t", "y", "p", "e">>

\* -------------------------------------------- field_processing.py: dispatch
HandlerOrder_ForcedLast ==
    <<"Union", "List", "Tuple", "Any", "PlainDict", "Dict", "Str",
      "Number", "Decimal", "Bool", "Enum", "Date", "ForwardRef", "Subclass",
      "PartialSubclass", "Extra">>
\* ApiDataField.__subclasses__() in definition order
HandlerOrder ==
    <<"Extra", "Union", "List", "Tuple", "Any", "PlainDict", "Dict", "Str",
      "Number", "Decimal", "Bool", "Enum", "Date", "ForwardRef", "Subclass",
      "PartialSubclass">>

\* PartialSubclassDataField.check raises ConfigurationError
PartialMisconfigured(fd) ==
    fd.origin = "Partial"
      /\ ~(Len(fd.args) = 1 /\ fd.args[1].k \in RecordNames)

\* <subclass>.check(field)
Check(h, fd) ==
    CASE h = "Extra" -> fd.forced # <<>>
      [] h = "Union" -> fd.origin = "Union"
      [] h = "List" -> fd.origin = "List"
      [] h = "Tuple" -> fd.origin = "Tuple"
      [] h = "Any" -> fd.type = T("Any")
      [] h = "PlainDict" -> fd.origin = "None" /\ fd.type = T("dict")
      [] h = "Dict" -> fd.origin = "Dict"
      [] h = "Str" -> fd.type = T("str")
      [] h = "Number" -> fd.type \in {T("int"), T("float")}
      [] h = "Decimal" -> fd.type = T("Decimal")
      [] h = "Bool" -> fd.type = T("bool")
      [] h = "Enum" -> fd.type.k \in EnumNames /\ EnumBacking(fd.type.k) \in {"str", "int"}
      [] h = "Date" -> fd.type \in {T("date"), T("datetime")}
      [] h = "ForwardRef" ->
            fd.type.k = "ForwardRef" /\ Len(fd.type.args) = 1
              /\ fd.type.args[1].k \in RecordNames
      [] h = "Subclass" -> fd.type.k \in RecordNames /\ fd.type.args = <<>>
      [] OTHER -> fd.origin = "Partial"

\* ApiDataField.processor: the first subclass whose check holds, or the
\* name of the exception raised
processor(fd) ==
    LET hits == {i \in 1..Len(HandlerOrder) : Check(HandlerOrder[i], fd)}
    IN IF hits = {} THEN "UnknownFieldType"
       ELSE LET i == CHOOSE j \in hits : \A h \in hits : j <= h
            IN IF HandlerOrder[i] = "PartialSubclass" /\ PartialMisconfigured(fd)
               THEN "ConfigurationError"
               ELSE HandlerOrder[i]
IsHandler(h) == \E i \in 1..Len(HandlerOrder) : HandlerOrder[i] = h

\* ------------------------------------- field_processing.py: type resolution
\* the characters in code point order
CharOrder ==
    <<" ", "(", ")", ",", ".", "/", "0", "1", "2", "3", "4", "5", "6", "7", "8", "9", ":", "<", ">", "A", "B", "C", "D", "E">> \o
    <<"F", "G", "H", "I", "J", "K", "L", "M", "N", "O", "P", "Q", "R", "S", "T", "U", "V", "W", "X", "Y", "Z", "[", "]", "_">> \o
    <<"a", "b", "c", "d", "e", "f", "g", "h", "i", "j", "k", "l", "m", "n", "o", "p", "q", "r", "s", "t", "u", "v", "w", "x", "y", "z", "|", "~">>
Ord(c) == CHOOSE i \in 1..Len(CharOrder) : CharOrder[i] = c
\* a < b on str
RECURSIVE StrLess(_, _)
StrLess(a, b) ==
    IF b = <<>> THEN FALSE
    ELSE IF a = <<>> THEN TRUE
    ELSE IF a[1] # b[1] THEN Ord(a[1]) < Ord(b[1])
    ELSE StrLess(Tail(a), Tail(b))
\* sorted(strs)
RECURSIVE SortedStrs(_)
SortedStrs(strs) ==
    IF strs = <<>> THEN <<>>
    ELSE LET i == CHOOSE j \in 1..Len(strs) :
                      \A h \in 1..Len(strs) : ~StrLess(strs[h], strs[j])
                        /\ (strs[h] = strs[j] => j <= h)
             rest == [h \in 1..(Len(strs) - 1) |-> IF h < i THEN strs[h] ELSE strs[h + 1]]
         IN <<strs[i]>> \o SortedStrs(rest)
\* sep.join(strs)
RECURSIVE Join(_, _)
Join(strs, sep) ==
    IF strs = <<>> THEN <<>>
    ELSE IF Len(strs) = 1 THEN strs[1]
    ELSE strs[1] \o sep \o Join(Tail(strs), sep)
\* "|" in text
HasBar(cs) == \E i \in 1..Len(cs) : cs[i] = "|"

\* FieldProcessingResultV2, or the exception process() raised
Processed(ts) == [exc |-> "", ts |-> ts]
ProcessFailed(exc) == [exc |-> exc, ts |-> <<>>]
\* TypeDefinition
TypeDefinition(actual_type, ts_type) == [actual_type |-> actual_type, ts_type |-> ts_type]

RECURSIVE process(_)
RECURSIVE UnionTypesFrom(_, _, _)
RECURSIVE TupleTypesFrom(_, _, _)
\* process_subclass(name, t)
process_subclass(t) == process(Create(<<>>, t))

\* one turn of the loop of UnionDataField._get_union_types: t is the argument,
\* parsed what process_subclass made of it; acc = [exc, types, optional, names]
UnionTypesStep(acc, t, parsed) ==
    IF parsed.exc # "" THEN [acc EXCEPT !.exc = parsed.exc]
    ELSE IF parsed.ts \in acc.names THEN acc
    ELSE [acc EXCEPT !.names = acc.names \cup {parsed.ts},
                     !.types = Append(acc.types, TypeDefinition(t, parsed.ts))]
\* the loop of UnionDataField._get_union_types from argument i on
UnionTypesFrom(args, i, acc) ==
    IF i > Len(args) \/ acc.exc # "" THEN acc
    ELSE IF args[i] = NoneType
    THEN UnionTypesFrom(args, i + 1, [acc EXCEPT !.optional = TRUE])
    ELSE UnionTypesFrom(args, i + 1, UnionTypesStep(acc, args[i], process_subclass(args[i])))
\* UnionDataField._get_union_types
_get_union_types(fd) ==
    UnionTypesFrom(fd.type.args, 1, [exc |-> "", types |-> <<>>, optional |-> FALSE, names |-> {}])

\* one turn of the loop of TupleDataField._get_tuple_types; acc = [exc, types]
TupleTypesStep(acc, t, parsed) ==
    IF parsed.exc # "" THEN [acc EXCEPT !.exc = parsed.exc]
    ELSE [acc EXCEPT !.types = Append(acc.types, TypeDefinition(t, parsed.ts))]
\* the loop of TupleDataField._get_tuple_types from argument i on
TupleTypesFrom(args, i, acc) ==
    IF i > Len(args) \/ acc.exc # "" THEN acc
    ELSE TupleTypesFrom(args, i + 1, TupleTypesStep(acc, args[i], process_subclass(args[i])))
\* TupleDataField._get_tuple_types
_get_tuple_types(fd) == TupleTypesFrom(fd.type.args, 1, [exc |-> "", types |-> <<>>])

\* DictTypesDefinition of the processed key and value types: [exc, key, value]
DictTypesDefinition(key_type, value_type, key, value) ==
    IF key.exc # ""
    THEN [exc |-> key.exc, key |-> TypeDefinition(key_type, <<>>),
          value |-> TypeDefinition(value_type, <<>>)]
    ELSE [exc |-> value.exc, key |-> TypeDefinition(key_type, key.ts),
          value |-> TypeDefinition(value_type, value.ts)]
\* DictDataField._get_definition
_get_definition(fd) ==
    DictTypesDefinition(fd.type.args[1], fd.type.args[2],
                        process_subclass(fd.type.args[1]), process_subclass(fd.type.args[2]))

\* the rendering that joins the arms in declaration order, without sorting
UnionProcess_Unsorted(u) ==
    IF u.exc # "" THEN ProcessFailed(u.exc)
    ELSE Processed(Join([i \in 1..Len(u.types) |-> u.types[i].ts_type], <<" ", "|", " ">>))

\* UnionDataField.process on the union types u
UnionProcess(u) ==
    IF u.exc # "" THEN ProcessFailed(u.exc)
    ELSE Processed(Join(SortedStrs([i \in 1..Len(u.types) |-> u.types[i].ts_type]),
                        <<" ", "|", " ">>))
\* ListDataField.process on the processed element type
ListProcess(parsed) ==
    IF parsed.exc # "" THEN parsed
    ELSE IF HasBar(parsed.ts)
    THEN Processed(<<"(">> \o parsed.ts \o <<")", "[", "]">>)
    ELSE Processed(parsed.ts \o <<"[", "]">>)
\* TupleDataField.process on the tuple types u
TupleProcess(u) ==
    IF u.exc # "" THEN ProcessFailed(u.exc)
    ELSE Processed(<<"[">> \o Join([i \in 1..Len(u.types) |-> u.types[i].ts_type],
                                   <<",", " ">>) \o <<"]">>)
\* DictDataField.process on the definition d
DictProcess(d) ==
    IF d.exc # "" THEN ProcessFailed(d.exc)
    ELSE Processed(<<"R", "e", "c", "o", "r", "d", "<">> \o d.key.ts_type \o <<",", " ">>
                     \o d.value.ts_type \o <<">">>)

\* the process of the handler variant h
ProcessAs(h, fd) ==
    CASE ~IsHandler(h) -> ProcessFailed(h)
      [] h = "Extra" -> Processed(fd.forced)
      [] h = "Union" -> UnionProcess(_get_union_types(fd))
      [] h = "List" -> ListProcess(process_subclass(fd.type.args[1]))
      [] h = "Tuple" -> TupleProcess(_get_tuple_types(fd))
      [] h = "Any" -> Processed(<<"a", "n", "y">>)
      [] h = "PlainDict" -> Processed(<<"R", "e", "c", "o", "r", "d", "<", "s", "t", "r", "i", "n", "g", ",", " ", "a", "n", "y", ">">>)
      [] h = "Dict" -> DictProcess(_get_definition(fd))
      [] h = "Str" -> Processed(<<"s", "t", "r", "i", "n", "g">>)
      [] h \in {"Number", "Decimal"} -> Processed(<<"n", "u", "m", "b", "e", "r">>)
      [] h = "Bool" -> Processed(<<"b", "o", "o", "l", "e", "a", "n">>)
      [] h = "Enum" -> Processed(TypeName(fd.type.k))
      [] h = "Date" -> Processed(<<"s", "t", "r", "i", "n", "g">>)
      [] h = "ForwardRef" -> ProcessFailed("AttributeError")
      [] h = "Subclass" -> Processed(TypeName(fd.type.k))
      [] OTHER -> Processed(<<"P", "a", "r", "t", "i", "a", "l", "<">> \o TypeName(fd.type.args[1].k) \o <<">">>)

\* ApiDataField.processor(field, tree).process()
process(fd) == ProcessAs(processor(fd), fd)

\* --------------------------------------------- field_processing.py: load
\* the outcome of a load: exc = "" and the decoded value, or the exception
\* with what its message names (kind, type names, numbers); calls counts the
\* handler loads dispatched for arms, elements and fields on the way, and
\* resolved tells whether the handler resolved its declared argument types
Returned(val, calls, resolved) ==
    [exc |-> "", val |-> val, kind |-> "", names |-> <<>>, nums |-> <<>>,
     calls |-> calls, resolved |-> resolved]
Raised(exc, kind, names, nums, calls, resolved) ==
    [exc |-> exc, val |-> None, kind |-> kind, names |-> names, nums |-> nums,
     calls |-> calls, resolved |-> resolved]
\* an outcome handed up by a nested load, with the caller's own count added
Nested(out, calls, resolved) ==
    [out EXCEPT !.calls = out.calls + calls, !.resolved = resolved]

\* the outcome before any load has run
NotRun == Returned(None, 0, FALSE)
\* a conversion's pair <<exception, value>> as the outcome of a load
Converted(d) ==
    IF d[1] = "" THEN Returned(d[2], 0, FALSE)
    ELSE Raised(d[1], "", <<>>, <<>>, 0, FALSE)

\* type(v)
RuntimeType(v) == T(v.t)

\* the default rule testing the default for truth instead of for the sentinel
BaseLoadReturns_Truthy(fd, input_value) ==
    input_value = None /\ fd.default # NOTHING /\ Truthy(fd.default)

\* ApiDataField.load returns the default instead of raising NoDefaultValue
BaseLoadReturns(fd, input_value) ==
    input_value = None /\ fd.default # NOTHING

\* NumberDataField.load testing isinstance(input_value, int), which a bool passes
NumberLoad_IsInstance(fd, input_value) ==
    IF RuntimeType(input_value) # fd.type
    THEN IF fd.type = T("float") /\ input_value.t \in {"int", "bool"}
         THEN Returned(FloatOfInt(input_value), 0, FALSE)
         ELSE IF fd.type = T("int") /\ RuntimeType(input_value) = T("float")
         THEN Returned(IntOfFloat(input_value), 0, FALSE)
         ELSE Raised("LoadError", "Type Mismatch", <<>>, <<>>, 0, FALSE)
    ELSE Returned(input_value, 0, FALSE)

\* NumberDataField.load after the default rule
NumberLoad(fd, input_value) ==
    IF RuntimeType(input_value) # fd.type
    THEN IF fd.type = T("float") /\ RuntimeType(input_value) = T("int")
         THEN Returned(FloatOfInt(input_value), 0, FALSE)
         ELSE IF fd.type = T("int") /\ RuntimeType(input_value) = T("float")
         THEN Returned(IntOfFloat(input_value), 0, FALSE)
         ELSE Raised("LoadError", "Type Mismatch", <<>>, <<>>, 0, FALSE)
    ELSE Returned(input_value, 0, FALSE)

\* DecimalDataField.load after the default rule
DecimalLoad(fd, input_value) ==
    IF Truthy(input_value) THEN Converted(DecimalOf(input_value))
    ELSE Returned(None, 0, FALSE)

\* the end of EnumDataField.load on what parse_enum returned
EnumParsed(actual_value) ==
    IF ~Truthy(actual_value)
    THEN Raised("LoadError", "Value Error", <<>>, <<>>, 0, FALSE)
    ELSE Returned(actual_value, 0, FALSE)
\* EnumDataField.load after the default rule
EnumLoad(fd, input_value) ==
    IF RuntimeType(input_value) # T("str")
    THEN IF RuntimeType(input_value) = fd.type
         THEN Returned(input_value, 0, FALSE)
         ELSE Raised("LoadError", "Type Mismatch", <<>>, <<>>, 0, FALSE)
    ELSE EnumParsed(parse_enum(fd.type.k, input_value))

\* DateDataField.load after the default rule
DateLoad(fd, input_value) == Converted(parse_date(input_value, fd.type = T("datetime")))

\* the length test rejecting only an input that is too short
LengthMismatch_TooShort(input_len, types_len) == input_len < types_len

\* the length test of TupleDataField.load
LengthMismatch(input_len, types_len) == input_len # types_len

\* a lookup that ignores the key and takes the first item of the mapping
DictGet_FirstItem(d, key) ==
    IF d.xs = <<>> THEN None ELSE d.xs[1].xs[2]

\* input_data.get(name, None); a later item with the same key wins
DictGet(d, key) ==
    LET hits == {i \in 1..Len(d.xs) : d.xs[i].xs[1] = key}
    IN IF hits = {} THEN None
       ELSE d.xs[CHOOSE j \in hits : \A h \in hits : h <= j].xs[2]
\* ret[key] = value on the items of a dict
DictSet(items, key, val) ==
    IF \E i \in 1..Len(items) : items[i].xs[1] = key
    THEN [i \in 1..Len(items) |->
            IF items[i].xs[1] = key THEN ItemV(key, val) ELSE items[i]]
    ELSE Append(items, ItemV(key, val))

\* the declared key types DictDataField.load compares a key's type with
KeyActualTypes(key_type) ==
    IF Origin(key_type) = "Union"
         /\ ~\E i \in 1..Len(key_type.args) : key_type.args[i] = NoneType
    THEN key_type.args
    ELSE <<key_type>>
\* the key stored for a str key of an enum-keyed dict: <<exception, key>>
EnumKey(actual_key, key) ==
    IF Truthy(actual_key) THEN <<"", actual_key>> ELSE <<"LoadError", key>>
\* the key DictDataField.load stores for a raw key: <<exception, key>>
DictKey(key_type, key) ==
    LET actual_types == KeyActualTypes(key_type)
    IN IF \E i \in 1..Len(actual_types) : actual_types[i] = RuntimeType(key)
       THEN <<"", key>>
       ELSE IF RuntimeType(key) = T("str") /\ Len(actual_types) = 1
                 /\ actual_types[1].k \in EnumNames
            THEN EnumKey(parse_enum(actual_types[1].k, key), key)
            ELSE <<"LoadError", key>>

\* the test of rec_load with the negation of the None search dropped
UnionWithoutNone_Inverted(t) ==
    Origin(t) = "Union" /\ \E i \in 1..Len(t.args) : t.args[i] = NoneType

\* the union field of rec_load that needs a custom loader
UnionWithoutNone(t) ==
    Origin(t) = "Union" /\ ~\E i \in 1..Len(t.args) : t.args[i] = NoneType

\* Partial.generate_cls: every field optional, default None
PartialClass(cls) ==
    [cls EXCEPT !.name = "Partial_" \o cls.name,
                !.fields = [i \in 1..Len(cls.fields) |->
                    Attribute(cls.fields[i].name,
                              IF Origin(cls.fields[i].type) = "Union"
                                   /\ \E j \in 1..Len(cls.fields[i].type.args) :
                                         cls.fields[i].type.args[j] = NoneType
                              THEN cls.fields[i].type
                              ELSE Optional(cls.fields[i].type),
                              None, TRUE)]]

RECURSIVE load(_, _)
RECURSIVE UnionArmsFrom(_, _, _, _)
RECURSIVE ListFrom(_, _, _, _)
RECURSIVE TupleFrom(_, _, _, _)
RECURSIVE DictFrom(_, _, _, _, _)
RECURSIVE rec_load(_, _)
RECURSIVE FieldsFrom(_, _, _, _)

\* one turn of the arm loop of UnionDataField.load on the outcome r of the
\* arm: a LoadError moves on to the next arm, any other outcome ends the loop;
\* acc = [done, r, calls]
TryArm(acc, r) ==
    IF r.exc = "LoadError" THEN [acc EXCEPT !.calls = acc.calls + 1 + r.calls]
    ELSE [done |-> TRUE, r |-> r, calls |-> acc.calls + 1]
\* the arm loop of UnionDataField.load from arm i on
UnionArmsFrom(union_types, i, input_value, acc) ==
    IF i > Len(union_types) \/ acc.done THEN acc
    ELSE UnionArmsFrom(union_types, i + 1, input_value,
           TryArm(acc, load(Create(<<>>, union_types[i].actual_type), input_value)))
\* the end of UnionDataField.load: the outcome of the arm that ended the
\* loop, or the LoadError naming the arms
UnionOutcome(union_types, acc) ==
    IF acc.done THEN Nested(acc.r, acc.calls, TRUE)
    ELSE Raised("LoadError", "Type Mismatch",
                [j \in 1..Len(union_types) |-> TypeName(union_types[j].actual_type.k)],
                <<>>, acc.calls, TRUE)
\* UnionDataField.load after the default rule, u being _get_union_types()
UnionLoad(u, input_value) ==
    IF u.exc # "" THEN Raised(u.exc, "", <<>>, <<>>, 0, TRUE)
    ELSE IF u.optional /\ input_value = None THEN Returned(None, 0, TRUE)
    ELSE UnionOutcome(u.types,
           UnionArmsFrom(u.types, 1, input_value, [done |-> FALSE, r |-> NotRun, calls |-> 0]))

\* one turn of an element loop on the outcome r of the element's load: a
\* failure ends the loop, a value is appended; acc = [exc, r, val, calls]
Collect(acc, r) ==
    IF r.exc # "" THEN [acc EXCEPT !.exc = r.exc, !.r = r, !.calls = acc.calls + 1]
    ELSE [acc EXCEPT !.val = Append(acc.val, r.val), !.calls = acc.calls + 1 + r.calls]
\* the accumulator an element loop starts from
NoneCollected == [exc |-> "", r |-> NotRun, val |-> <<>>, calls |-> 0]
\* the end of an element loop: the failure, or the container built
Collected(acc, container, resolved) ==
    IF acc.exc # "" THEN Nested(acc.r, acc.calls, resolved)
    ELSE Returned(CASE container = "list" -> ListV(acc.val)
                    [] container = "tuple" -> TupleV(acc.val)
                    [] OTHER -> DictV(acc.val), acc.calls, resolved)

\* the element loop of ListDataField.load from element i on
ListFrom(fd, xs, i, acc) ==
    IF i > Len(xs) \/ acc.exc # "" THEN acc
    ELSE ListFrom(fd, xs, i + 1, Collect(acc, load(Create(fd.name, fd.type.args[1]), xs[i])))

\* the element loop of TupleDataField.load: zip(tuple_types, input_value)
TupleFrom(tuple_types, xs, i, acc) ==
    IF i > Len(xs) \/ i > Len(tuple_types) \/ acc.exc # "" THEN acc
    ELSE TupleFrom(tuple_types, xs, i + 1,
           Collect(acc, load(Create(<<>>, tuple_types[i].actual_type), xs[i])))
\* TupleDataField.load after the default rule, u being _get_tuple_types()
TupleLoad(u, input_value) ==
    IF u.exc # "" THEN Raised(u.exc, "", <<>>, <<>>, 0, TRUE)
    ELSE IF RuntimeType(input_value) # T("list")
    THEN Raised("LoadError", "Type Mismatch", <<>>, <<>>, 0, TRUE)
    ELSE IF LengthMismatch(Len(input_value.xs), Len(u.types))
    THEN Raised("LoadError", "Length Mismatch", <<>>,
                <<Len(u.types), Len(input_value.xs)>>, 0, TRUE)
    ELSE Collected(TupleFrom(u.types, input_value.xs, 1, NoneCollected), "tuple", TRUE)

\* one turn of the item loop of DictDataField.load: key is what DictKey made
\* of the raw key, r the outcome of the value's load
CollectItem(acc, key, r) ==
    IF key[1] # ""
    THEN [acc EXCEPT !.exc = key[1],
                     !.r = Raised(key[1], "Type Mismatch", <<>>, <<>>, 0, TRUE)]
    ELSE IF r.exc # "" THEN [acc EXCEPT !.exc = r.exc, !.r = r, !.calls = acc.calls + 1]
    ELSE [acc EXCEPT !.val = DictSet(acc.val, key[2], r.val),
                     !.calls = acc.calls + 1 + r.calls]
\* the item loop of DictDataField.load from item i on
DictFrom(fd, definition, items, i, acc) ==
    IF i > Len(items) \/ acc.exc # "" THEN acc
    ELSE DictFrom(fd, definition, items, i + 1,
           CollectItem(acc, DictKey(definition.key.actual_type, items[i].xs[1]),
                       load(Create(fd.name, definition.value.actual_type), items[i].xs[2])))
\* DictDataField.load of a dict, d being _get_definition()
DictLoad(fd, d, input_value) ==
    IF d.exc # "" THEN Raised(d.exc, "", <<>>, <<>>, 0, TRUE)
    ELSE Collected(DictFrom(fd, d, input_value.xs, 1, NoneCollected), "dict", TRUE)

\* the load of the handler variant h
LoadAs(h, fd, input_value) ==
    IF ~IsHandler(h) THEN Raised(h, "", <<>>, <<>>, 0, FALSE)
    ELSE IF BaseLoadReturns(fd, input_value) THEN Returned(fd.default, 0, FALSE)
    ELSE
    CASE h = "Extra" -> Raised("NoDefaultValue", "", <<>>, <<>>, 0, FALSE)
      [] h = "Union" -> UnionLoad(_get_union_types(fd), input_value)
      [] h = "List" ->
            IF RuntimeType(input_value) # T("list")
            THEN Raised("LoadError", "Type Mismatch", <<>>, <<>>, 0, FALSE)
            ELSE Collected(ListFrom(fd, input_value.xs, 1, NoneCollected), "list", FALSE)
      [] h = "Tuple" -> TupleLoad(_get_tuple_types(fd), input_value)
      [] h = "Any" -> Returned(input_value, 0, FALSE)
      [] h = "PlainDict" ->
            IF RuntimeType(input_value) # T("dict")
            THEN Raised("LoadError", "Type Mismatch", <<>>, <<>>, 0, FALSE)
            ELSE Returned(input_value, 0, FALSE)
      [] h = "Dict" ->
            IF RuntimeType(input_value) # T("dict")
            THEN Raised("LoadError", "Type Mismatch", <<>>, <<>>, 0, FALSE)
            ELSE DictLoad(fd, _get_definition(fd), input_value)
      [] h = "Str" ->
            IF RuntimeType(input_value) # T("str") /\ ~IsInstanceStr(input_value)
            THEN Raised("LoadError", "Type Mismatch", <<>>, <<>>, 0, FALSE)
            ELSE Returned(input_value, 0, FALSE)
      [] h = "Number" -> NumberLoad(fd, input_value)
      [] h = "Decimal" -> DecimalLoad(fd, input_value)
      [] h = "Bool" ->
            IF RuntimeType(input_value) # T("bool")
            THEN Raised("LoadError", "Type Mismatch", <<>>, <<>>, 0, FALSE)
            ELSE Returned(input_value, 0, FALSE)
      [] h = "Enum" -> EnumLoad(fd, input_value)
      [] h = "Date" -> DateLoad(fd, input_value)
      [] h = "ForwardRef" -> rec_load(ClassDef(fd.type.args[1].k), input_value)
      [] h = "Subclass" -> rec_load(ClassDef(fd.type.k), input_value)
      [] OTHER -> rec_load(PartialClass(ClassDef(fd.type.args[1].k)), input_value)

\* ApiDataField.processor(field, tree).load(input_value, tree)
load(fd, input_value) == LoadAs(processor(fd), fd, input_value)

\* --------------------------------------------------------------- dto.py
HasKey(items, key) == \E i \in 1..Len(items) : items[i].xs[1] = key
\* input_cls(**ret_kwargs): a field without a keyword takes its default,
\* and a field without either makes the constructor raise TypeError
Construct(cls, kwargs, calls) ==
    IF \E i \in 1..Len(cls.fields) :
          /\ cls.fields[i].init
          /\ ~HasKey(kwargs, StrV(cls.fields[i].name))
          /\ cls.fields[i].default = NOTHING
    THEN Raised("TypeError", "", <<>>, <<>>, calls, FALSE)
    ELSE Returned(InstV(cls.name,
            [i \in 1..Len(cls.fields) |->
               ItemV(StrV(cls.fields[i].name),
                     IF cls.fields[i].init /\ HasKey(kwargs, StrV(cls.fields[i].name))
                     THEN DictGet(DictV(kwargs), StrV(cls.fields[i].name))
                     ELSE cls.fields[i].default)]), calls, FALSE)

\* the keyword of field name from the outcome r of its handler's load: a
\* TypeError becomes a LoadError, any other exception leaves rec_load;
\* acc = [exc, r, kwargs, calls]
Kwarg(acc, name, r) ==
    IF r.exc = "TypeError"
    THEN [acc EXCEPT !.exc = "LoadError",
                     !.r = Raised("LoadError", "unknown field type", <<>>, <<>>,
                                  acc.calls + 1 + r.calls, FALSE)]
    ELSE IF r.exc # "" THEN [acc EXCEPT !.exc = r.exc, !.r = Nested(r, acc.calls + 1, FALSE)]
    ELSE [acc EXCEPT !.kwargs = Append(acc.kwargs, ItemV(StrV(name), r.val)),
                     !.calls = acc.calls + 1 + r.calls]
\* one turn of the field loop of ApiData.rec_load, for the field f
LoadField(cls, f, field_value, acc) ==
    IF ~f.init THEN acc
    ELSE IF UnionWithoutNone(f.type) /\ f.name \notin DOMAIN cls.custom_load
    THEN [acc EXCEPT !.exc = "UnknownFieldType",
                     !.r = Raised("UnknownFieldType", "", <<>>, <<>>, acc.calls, FALSE)]
    ELSE IF f.name \in DOMAIN cls.custom_load
    THEN IF cls.custom_load[f.name] = "None" THEN acc
         ELSE [acc EXCEPT !.kwargs = Append(acc.kwargs, ItemV(StrV(f.name), field_value))]
    ELSE Kwarg(acc, f.name, load(CreateWithDefault(f.name, f.type, f.default), field_value))
\* the field loop of ApiData.rec_load from field i on
FieldsFrom(cls, input_data, i, acc) ==
    IF i > Len(cls.fields) \/ acc.exc # "" THEN acc
    ELSE FieldsFrom(cls, input_data, i + 1,
           LoadField(cls, cls.fields[i], DictGet(input_data, StrV(cls.fields[i].name)), acc))
\* the end of ApiData.rec_load: the exception of the loop, or the instance
Constructed(cls, acc) ==
    IF acc.exc # "" THEN acc.r ELSE Construct(cls, acc.kwargs, acc.calls)

\* ApiData.rec_load / load_from_dict
rec_load(cls, input_data) ==
    IF RuntimeType(input_data) # T("dict")
    THEN Raised("LoadError", "Not a Dict while Loadable", <<>>, <<>>, 0, FALSE)
    ELSE Constructed(cls, FieldsFrom(cls, input_data, 1,
                            [exc |-> "", r |-> NotRun, kwargs |-> <<>>, calls |-> 0]))

\* ---------------------------------------- field_processing.py: represent
\* issubclass(a, b) on the classes of the model
IsSubclass(a, b) ==
    \/ a = b
    \/ a = "bool" /\ b = "int"
    \/ a = "datetime" /\ b = "date"
    \/ a \in EnumNames /\ EnumBacking(a) = b
\* the container class behind a generic alias: List[int].__origin__ is list
OriginClass(t) ==
    CASE t.k = "List" -> "list"
      [] t.k = "Tuple" -> "tuple"
      [] t.k = "Dict" -> "dict"
      [] OTHER -> "None"
\* the test matching only an argument equal to the value's type
ArmMatches_ExactType(t, ret) == t = RuntimeType(ret) /\ t # NoneType

\* the test UnionDataField.represent applies to the declared argument t
ArmMatches(t, ret) ==
    /\ \/ t = RuntimeType(ret)
       \/ OriginClass(t) = ret.t
       \/ t.args = <<>> /\ t.k # "Any" /\ (IsSubclass(t.k, ret.t) \/ IsSubclass(ret.t, t.k))
    /\ t # NoneType

\* the outcome of a represent: exc = "" and the plain value, or the exception
Plain(val) == [exc |-> "", val |-> val]
Failed(exc) == [exc |-> exc, val |-> None]

\* float(ret) in DecimalDataField.represent
FloatOf(ret) ==
    CASE ret.t = "Decimal" -> Plain(FloatOfDecimal(ret))
      [] ret.t \in {"int", "bool"} -> Plain(FloatOfInt(ret))
      [] ret.t = "float" -> Plain(ret)
      [] OTHER -> Failed("TypeError")

\* EnumDataField.represent of a value that is not None
EnumRepresent(fd, ret) ==
    IF IsEnumMember(ret) THEN Plain(MemberValue(ret))
    ELSE IF RuntimeType(ret) = T("str") THEN Plain(ret)
    ELSE Failed("LoadError")

\* the class of a record instance
ClassByName(n) ==
    IF n = "Partial_Inner" THEN PartialClass(ClassDef("Inner")) ELSE ClassDef(n)
IsInstance(v) == v.t \in RecordNames \/ v.t = "Partial_Inner"

RECURSIVE represent(_, _)
RECURSIVE SeqRepFrom(_, _, _, _)
RECURSIVE DictRepFrom(_, _, _, _)
RECURSIVE rec_represent(_, _)
RECURSIVE IterFrom(_, _, _, _)
RECURSIVE UnionRepFrom(_, _, _)

\* a conversion's pair <<exception, value>> as the outcome of a represent
Formatted(d) == IF d[1] = "" THEN Plain(d[2]) ELSE Failed(d[1])

\* one turn of an element loop on the outcome r of the element's represent;
\* acc = [exc, r, val]
CollectPlain(acc, r) ==
    IF r.exc # "" THEN [acc EXCEPT !.exc = r.exc, !.r = r]
    ELSE [acc EXCEPT !.val = Append(acc.val, r.val)]
\* the accumulator a represent loop starts from
NonePlain == [exc |-> "", r |-> Plain(None), val |-> <<>>]
\* the end of a represent loop: the failure, or the list or dict built
CollectedPlain(acc, container) ==
    IF acc.exc # "" THEN acc.r
    ELSE IF container = "list" THEN Plain(ListV(acc.val))
    ELSE Plain(DictV(acc.val))

\* represents xs[i..] one by one, element i against types[i]
SeqRepFrom(types, xs, i, acc) ==
    IF i > Len(xs) \/ i > Len(types) \/ acc.exc # "" THEN acc
    ELSE SeqRepFrom(types, xs, i + 1,
           CollectPlain(acc, represent(Create(<<>>, types[i]), xs[i])))
\* TupleDataField.represent of a value that is not None, u being
\* _get_tuple_types()
TupleRepresent(u, ret) ==
    IF u.exc # "" THEN Failed(u.exc)
    ELSE CollectedPlain(SeqRepFrom([i \in 1..Len(u.types) |-> u.types[i].actual_type],
                                   ret.xs, 1, NonePlain), "list")

\* one turn of the item loop of DictDataField.represent on the represented
\* key k and value v
CollectPlainItem(acc, k, v) ==
    IF k.exc # "" THEN [acc EXCEPT !.exc = k.exc, !.r = k]
    ELSE IF v.exc # "" THEN [acc EXCEPT !.exc = v.exc, !.r = v]
    ELSE [acc EXCEPT !.val = DictSet(acc.val, k.val, v.val)]
\* the item loop of DictDataField.represent from item i on
DictRepFrom(definition, items, i, acc) ==
    IF i > Len(items) \/ acc.exc # "" THEN acc
    ELSE DictRepFrom(definition, items, i + 1,
           CollectPlainItem(acc,
              represent(Create(<<>>, definition.key.actual_type), items[i].xs[1]),
              represent(Create(<<>>, definition.value.actual_type), items[i].xs[2])))
\* DictDataField.represent of a value that is not None, d being
\* _get_definition()
DictRepresent(d, ret) ==
    IF d.exc # "" THEN Failed(d.exc)
    ELSE CollectedPlain(DictRepFrom(d, ret.xs, 1, NonePlain), "dict")

\* the return of UnionDataField.represent through argument i, r being the
\* outcome of that argument's handler: a TypeError is passed over and the loop
\* goes on
ArmRepresented(fd, ret, i, r) ==
    IF r.exc = "TypeError" THEN UnionRepFrom(fd, ret, i + 1) ELSE r
\* the loop of UnionDataField.represent from argument i on
UnionRepFrom(fd, ret, i) ==
    IF i > Len(fd.args) THEN Plain(None)
    ELSE IF ArmMatches(fd.args[i], ret)
    THEN ArmRepresented(fd, ret, i, represent(Create(fd.name, fd.args[i]), ret))
    ELSE UnionRepFrom(fd, ret, i + 1)

\* the represent of the handler variant h, ret being the field's live value
RepresentAs(h, fd, ret) ==
    CASE ~IsHandler(h) -> Failed(h)
      [] h = "Union" -> UnionRepFrom(fd, ret, 1)
      [] h = "List" ->
            IF ret = None THEN Plain(None)
            ELSE CollectedPlain(SeqRepFrom([i \in 1..Len(ret.xs) |-> fd.type.args[1]],
                                           ret.xs, 1, NonePlain), "list")
      [] h = "Tuple" ->
            IF ret = None THEN Plain(None) ELSE TupleRepresent(_get_tuple_types(fd), ret)
      [] h = "Dict" ->
            IF ret = None THEN Plain(None) ELSE DictRepresent(_get_definition(fd), ret)
      [] h = "Decimal" -> IF ret = None THEN Plain(None) ELSE FloatOf(ret)
      [] h = "Enum" -> IF ret = None THEN Plain(None) ELSE EnumRepresent(fd, ret)
      [] h = "Date" ->
            IF ret = None THEN Plain(None)
            ELSE Formatted(format_date(ret, fd.type = T("datetime")))
      [] h \in {"ForwardRef", "Subclass", "PartialSubclass"} ->
            IF ret = None THEN Plain(None)
            ELSE IF IsInstance(ret) THEN rec_represent(ClassByName(ret.t), ret)
            ELSE Failed("AttributeError")
      [] OTHER -> Plain(ret)

\* ApiDataField.processor(field, tree).represent(cls_exemplar)
represent(fd, ret) == RepresentAs(processor(fd), fd, ret)

\* the item ApiData.__iter__ yields for field name from the outcome r of its
\* handler's represent
Yield(acc, name, r) ==
    IF r.exc # "" THEN [acc EXCEPT !.exc = r.exc, !.r = r]
    ELSE [acc EXCEPT !.val = Append(acc.val, ItemV(StrV(name), r.val))]
\* the inclusion test without the OMIT_IN_REPRESENTATION part
Included_IgnoresOmit(c, name, value) == value # None \/ name \in c.force_none

\* the test of ApiData.__iter__ that lets a field into the output
Included(c, name, value) ==
    (value # None \/ name \in c.force_none) /\ name \notin c.omit
\* CUSTOM_REPRESENTATION[name](value): both representers return "x"
Representer(kind, value) == Plain(StrV(<<"x">>))
\* one turn of the loop of ApiData.__iter__, for the field f with live value
IterField(c, f, value, acc) ==
    IF ~Included(c, f.name, value) THEN acc
    ELSE IF f.name \in DOMAIN c.custom_representation
    THEN Yield(acc, f.name, Representer(c.custom_representation[f.name], value))
    ELSE Yield(acc, f.name, represent(CreateWithDefault(f.name, f.type, f.default), value))
\* the loop of ApiData.__iter__ from field i on
IterFrom(cls, inst, i, acc) ==
    IF i > Len(cls.fields) \/ acc.exc # "" THEN acc
    ELSE IterFrom(cls, inst, i + 1,
           IterField(cls, cls.fields[i], DictGet(inst, StrV(cls.fields[i].name)), acc))

\* ApiData.represent: dict(self)
rec_represent(cls, inst) == CollectedPlain(IterFrom(cls, inst, 1, NonePlain), "dict")

\* ------------------------------------------------------------- parse.py
\* a record class with what the generator reads besides: __module__,
\* CUSTOM_TS_TYPE (field name -> type string), CUSTOM_TS_FIELDS (items in
\* declaration order), CUSTOM_IMPORTS (items in declaration order) and
\* CUSTOM_TS_TYPE_NAME; defines_ts_type_name tells whether the class or a base
\* of it defines that attribute at all (ApiDataBase does not)
TsClass(c, module, custom_ts_type, custom_ts_fields, custom_imports,
        defines_ts_type_name, ts_type_name) ==
    c @@ [module |-> module, custom_ts_type |-> custom_ts_type,
          custom_ts_fields |-> custom_ts_fields, custom_imports |-> custom_imports,
          defines_ts_type_name |-> defines_ts_type_name, ts_type_name |-> ts_type_name]

\* text.startswith(prefix)
StartsWith(cs, prefix) == Len(prefix) <= Len(cs) /\ SubSeq(cs, 1, Len(prefix)) = prefix
\* str(k) of a small non-negative int
IntText(k) == IF k < 10 THEN <<Digits[k + 1]>> ELSE TwoDigits(k)

\* a dict as the sequence of its <<key, value>> items in insertion order
OdHas(od, key) == \E i \in 1..Len(od) : od[i][1] = key
\* od[key] = value: a key that is there keeps its place
OdSet(od, key, value) ==
    IF OdHas(od, key)
    THEN [i \in 1..Len(od) |-> IF od[i][1] = key THEN <<key, value>> ELSE od[i]]
    ELSE Append(od, <<key, value>>)
RECURSIVE OdUpdate(_, _)
\* od.update(other)
OdUpdate(od, other) ==
    IF other = <<>> THEN od
    ELSE OdUpdate(OdSet(od, other[1][1], other[1][2]), Tail(other))

\* ProcessedFieldV2
ProcessedFieldV2(name, required, type) == [name |-> name, required |-> required, type |-> type]
\* ProcessingResultV2: additional_types is always [] and is left out
ProcessingResultV2(type_name, fields, definition, additional_imports, additionally_load) ==
    [type_name |-> type_name, fields |-> fields, definition |-> definition,
     additional_imports |-> additional_imports, additionally_load |-> additionally_load]

\* `input_field not in omit_in_representation` compares the attr.Attribute
\* with the names of the list: Attribute.__eq__ returns NotImplemented for a
\* str, so the two are never equal
AttributeEqualsName(input_field, name) == FALSE

\* an entry of ApiDataTS.processors: a type string (is_str), or the handler
\* variant h built for the descriptor fd
ProcessorEntry(is_str, type, h, fd) == [is_str |-> is_str, type |-> type, h |-> h, fd |-> fd]
\* self.processors[name] = ... for the handler processor() returned, or the
\* exception it raised; acc = [exc, processors]
SetProcessor(acc, name, h, fd) ==
    IF ~IsHandler(h) THEN [acc EXCEPT !.exc = h]
    ELSE [acc EXCEPT !.processors = OdSet(acc.processors, name, ProcessorEntry(FALSE, <<>>, h, fd))]
\* one turn of the field loop of ApiDataTS.__init__
InitField(c, input_field, acc) ==
    IF input_field.name \in DOMAIN c.custom_ts_type
    THEN [acc EXCEPT !.processors =
            OdSet(acc.processors, input_field.name,
                  ProcessorEntry(TRUE, c.custom_ts_type[input_field.name], "", Create(<<>>, T("Any"))))]
    ELSE IF input_field.name \in DOMAIN c.custom_representation
    THEN IF c.custom_representation[input_field.name] = "untyped"
         THEN [acc EXCEPT !.exc = "FieldWithoutDefinition"]
         ELSE SetProcessor(acc, input_field.name,
                           processor(Create(input_field.name, T("str"))),
                           Create(input_field.name, T("str")))
    ELSE IF ~\E n \in c.omit : AttributeEqualsName(input_field, n)
    THEN SetProcessor(acc, input_field.name,
                      processor(Create(input_field.name, input_field.type)),
                      Create(input_field.name, input_field.type))
    ELSE acc
RECURSIVE InitFieldsFrom(_, _, _)
\* the field loop of ApiDataTS.__init__ from field i on
InitFieldsFrom(c, i, acc) ==
    IF i > Len(c.fields) \/ acc.exc # "" THEN acc
    ELSE InitFieldsFrom(c, i + 1, InitField(c, c.fields[i], acc))
RECURSIVE ExtraFieldsFrom(_, _, _, _)
\* the CUSTOM_TS_FIELDS loop of ApiDataTS.__init__ from item i on
ExtraFieldsFrom(k, c, i, acc) ==
    IF i > Len(c.custom_ts_fields) \/ acc.exc # "" THEN acc
    ELSE ExtraFieldsFrom(k, c, i + 1,
           SetProcessor(acc, c.custom_ts_fields[i][1], "Extra",
                        FieldDefinitionOf(c.custom_ts_fields[i][1], T(k), "None", <<>>,
                                          None, c.custom_ts_fields[i][2])))
\* ApiDataTS.__init__ for the record class c of key k: [exc, processors]
ApiDataTS(k, c) ==
    IF ~c.defines_ts_type_name THEN [exc |-> "AttributeError", processors |-> <<>>]
    ELSE ExtraFieldsFrom(k, c, 1, InitFieldsFrom(c, 1, [exc |-> "", processors |-> <<>>]))

\* settings.installed_apps
InstalledApps == {<<"a">>, <<"b">>}
\* __module__ of the enum classes of the schema
EnumModule(e) == IF e = "Status" THEN <<"b", ".", "d", "t", "o">>
                 ELSE <<"b", ".", "e", "n", "u", "m", "s">>
\* cls.__module__; env = [schema, also_process_module_keys]
ModuleOf(env, k) == IF k \in EnumNames THEN EnumModule(k) ELSE env.schema[k].module

RECURSIVE AddUnused(_, _)
\* the appends of process_subclass: the classes of xs not yet in acc
AddUnused(acc, xs) ==
    IF xs = <<>> THEN acc
    ELSE AddUnused(IF \E i \in 1..Len(acc) : acc[i] = xs[1] THEN acc ELSE Append(acc, xs[1]),
                   Tail(xs))
RECURSIVE additionally_load(_, _)
RECURSIVE LoadsFrom(_, _, _)
\* the additionally_load of process_subclass on the arguments from i on
LoadsFrom(args, i, acc) ==
    IF i > Len(args) THEN acc
    ELSE LoadsFrom(args, i + 1,
           AddUnused(acc, additionally_load(processor(Create(<<>>, args[i])), args[i])))
\* FieldProcessingResultV2.additionally_load of the handler variant h for the
\* declared type t (no handler fills additionally_import)
additionally_load(h, t) ==
    CASE h \in {"Enum", "Subclass"} -> <<t.k>>
      [] h = "PartialSubclass" -> <<t.args[1].k>>
      [] h = "List" -> LoadsFrom(<<t.args[1]>>, 1, <<>>)
      [] h \in {"Union", "Tuple", "Dict"} -> LoadsFrom(t.args, 1, <<>>)
      [] OTHER -> <<>>
\* FieldProcessingResultV2.optional: set by the Union handler on a None argument
IsOptional(h, t) == h = "Union" /\ \E i \in 1..Len(t.args) : t.args[i] = NoneType
\* ApiDataField.ret: the FieldProcessingResultV2 of a handler whose process
\* gave processed, or the exception it raised
FieldProcessingResultV2(processed, optional, loads) ==
    IF processed.exc # ""
    THEN [exc |-> processed.exc, type |-> <<>>, optional |-> FALSE, additionally_load |-> <<>>]
    ELSE [exc |-> "", type |-> processed.ts, optional |-> optional,
          additionally_load |-> loads]
\* no handler has processed
NotProcessed == [exc |-> "", type |-> <<>>, optional |-> FALSE, additionally_load |-> <<>>]

\* f"{value.value}" of an enum member's value
ValueText(v) == IF v.t = "str" THEN v.s ELSE IntText(v.n)
\* ApiDataTS._process_enum for an enum without _EXPORT_VALUES
_process_enum(e) ==
    ProcessingResultV2(TypeName(e), <<>>,
        Join([i \in 1..Len(EnumMembers(e)) |->
                IF EnumBacking(e) = "str"
                THEN <<"\"">> \o ValueText(EnumMembers(e)[i][2]) \o <<"\"">>
                ELSE ValueText(EnumMembers(e)[i][2])],
             <<" ", "|", " ">>),
        <<>>, <<>>)

\* do_embed that never embeds
do_embed_Never(env, self_module, k) == FALSE

\* do_embed of process_additionals for the class k, seen from the record of
\* module self_module; no ApiProxy is registered
do_embed(env, self_module, k) ==
    /\ \/ ModuleOf(env, k) = self_module
       \/ SplitOn(ModuleOf(env, k), ".")[Len(SplitOn(ModuleOf(env, k), "."))] # <<"d", "t", "o">>
       \/ ~\E app \in InstalledApps : StartsWith(ModuleOf(env, k), app)
    /\ ModuleOf(env, k) \notin env.also_process_module_keys

RECURSIVE MergeNames(_, _)
\* the names of xs not yet in names, appended
MergeNames(names, xs) ==
    IF xs = <<>> THEN names
    ELSE MergeNames(IF \E i \in 1..Len(names) : names[i] = xs[1] THEN names
                    ELSE Append(names, xs[1]), Tail(xs))
RECURSIVE OdMerge(_, _)
\* the merge loop that ends a turn of process_additionals
OdMerge(od, other) ==
    IF other = <<>> THEN od
    ELSE OdMerge(OdSet(od, other[1][1],
                       MergeNames(IF OdHas(od, other[1][1])
                                  THEN od[CHOOSE i \in 1..Len(od) : od[i][1] = other[1][1]][2]
                                  ELSE <<>>, other[1][2])),
                 Tail(other))

\* depth counts the ApiDataTS.process calls that are on the stack
RECURSIVE TsProcess(_, _, _)
RECURSIVE AdditionalsFrom(_, _, _, _, _, _)
RECURSIVE ResultsFrom(_, _, _, _, _, _)
RECURSIVE ProcessorsFrom(_, _, _, _, _, _)

\* additional_types.append(copy of the result); additional_imports.update(...);
\* acc = [exc, fields, additional_types, used, additional_imports, additionally_load]
Embed(acc, additional_result) ==
    [acc EXCEPT !.additional_types =
                    Append(acc.additional_types,
                           [additional_result EXCEPT !.additional_imports = <<>>,
                                                     !.additionally_load = <<>>]),
                !.additional_imports =
                    OdUpdate(acc.additional_imports, additional_result.additional_imports)]
\* the end of a turn of the loop over additional_results
Merged(acc, additional_result) ==
    IF acc.exc # "" THEN acc
    ELSE [acc EXCEPT !.additional_imports =
                        OdMerge(acc.additional_imports, additional_result.additional_imports)]
\* the loop over the results of a nested record from result j on
ResultsFrom(env, self_module, results, j, acc, depth) ==
    IF j > Len(results) \/ acc.exc # "" THEN acc
    ELSE ResultsFrom(env, self_module, results, j + 1,
           Merged(AdditionalsFrom(env, self_module, results[j].additionally_load, 1,
                                  Embed(acc, results[j]), depth),
                  results[j]), depth)
\* the embedding of the nested record whose process() gave nested
EmbedRecord(env, self_module, nested, acc, depth) ==
    IF nested.exc # "" THEN [acc EXCEPT !.exc = nested.exc]
    ELSE ResultsFrom(env, self_module, nested.results, 1, acc, depth)
\* the nested ApiDataTS(additional_type, ...).process(): a call beyond the
\* depth the interpreter's stack allows raises RecursionError
NestedProcess(env, k, depth) ==
    IF depth >= MaxDepth THEN [exc |-> "RecursionError", results |-> <<>>]
    ELSE TsProcess(env, k, depth + 1)
\* one turn of process_additionals, for the class k
Additional(env, self_module, k, acc, depth) ==
    IF do_embed(env, self_module, k) /\ TypeName(k) \notin acc.used
    THEN IF k \in EnumNames
         THEN [acc EXCEPT !.used = acc.used \cup {TypeName(k)},
                          !.additional_types = Append(acc.additional_types, _process_enum(k))]
         ELSE EmbedRecord(env, self_module, NestedProcess(env, k, depth),
                          [acc EXCEPT !.used = acc.used \cup {TypeName(k)}], depth)
    ELSE [acc EXCEPT !.additionally_load = Append(acc.additionally_load, k)]
\* process_additionals(additionals, ...) from element i on
AdditionalsFrom(env, self_module, additionals, i, acc, depth) ==
    IF i > Len(additionals) \/ acc.exc # "" THEN acc
    ELSE AdditionalsFrom(env, self_module, additionals, i + 1,
                         Additional(env, self_module, additionals[i], acc, depth), depth)

\* the field of a processed handler, with its dependencies queued
FieldProcessed(acc, name, processed, optional, loads) ==
    IF processed.exc # "" THEN [acc EXCEPT !.exc = processed.exc]
    ELSE [acc EXCEPT !.fields = Append(acc.fields,
                                       ProcessedFieldV2(name, ~optional, processed.ts)),
                     !.additionally_load = acc.additionally_load \o loads]
\* one turn of the processors loop of ApiDataTS.process
ProcessorTurn(env, self_module, name, p, acc, depth) ==
    IF p.is_str
    THEN [acc EXCEPT !.fields = Append(acc.fields, ProcessedFieldV2(name, TRUE, p.type))]
    ELSE AdditionalsFrom(env, self_module, additionally_load(p.h, p.fd.type), 1,
           FieldProcessed(acc, name, ProcessAs(p.h, p.fd), IsOptional(p.h, p.fd.type),
                          additionally_load(p.h, p.fd.type)), depth)
\* the processors loop of ApiDataTS.process from entry i on
ProcessorsFrom(env, self_module, processors, i, acc, depth) ==
    IF i > Len(processors) \/ acc.exc # "" THEN acc
    ELSE ProcessorsFrom(env, self_module, processors, i + 1,
           ProcessorTurn(env, self_module, processors[i][1], processors[i][2], acc, depth),
           depth)
\* the return of ApiDataTS.process: the record's result, then the embedded ones
TsResults(k, c, acc) ==
    IF acc.exc # "" THEN [exc |-> acc.exc, results |-> <<>>]
    ELSE [exc |-> "",
          results |-> <<ProcessingResultV2(
                           IF c.ts_type_name # <<>> THEN c.ts_type_name ELSE TypeName(k),
                           acc.fields, <<>>, acc.additional_imports, acc.additionally_load)>>
                        \o acc.additional_types]
\* ApiDataTS.process on what __init__ built
TsProcessed(env, k, c, built, depth) ==
    IF built.exc # "" THEN [exc |-> built.exc, results |-> <<>>]
    ELSE TsResults(k, c,
           ProcessorsFrom(env, c.module, built.processors, 1,
              [exc |-> "", fields |-> <<>>, additional_types |-> <<>>, used |-> {},
               additional_imports |-> c.custom_imports, additionally_load |-> <<>>],
              depth))
\* ApiDataTS(cls, ...).process() for the class of key k: [exc, results]
TsProcess(env, k, depth) ==
    IF k \in EnumNames THEN [exc |-> "", results |-> <<_process_enum(k)>>]
    ELSE TsProcessed(env, k, env.schema[k], ApiDataTS(k, env.schema[k]), depth)
\* preprocess(source) for a class: ApiDataTS(source, ...).process()
preprocess(env, k) == TsProcess(env, k, 1)

\* ------------------------------------------------------------- output.py
\* TypeScriptSettings.import_root
import_root == <<"@", "/">>
\* PrintableModule.__init__: a unit without content
PrintableModule(name, prefix, custom_path) ==
    [name |-> name, prefix |-> prefix, custom_path |-> custom_path,
     imports |-> <<>>, additional_imports |-> <<>>, types |-> <<>>,
     already_processed |-> {}, custom_already_pulled |-> {}, to_process |-> <<>>,
     exc |-> ""]
\* PrintableModule.import_path
import_path(m) == import_root \o m.prefix \o m.name
\* ModulesRepository.import_from: the key of the owning unit, "" for None;
\* g = [env, used, modules, order]
import_from(g, class_name) ==
    IF class_name \in DOMAIN g.used THEN g.used[class_name] ELSE ""
\* self.imports[path].append(name) on the defaultdict
ImportsAppend(imports, path, name) ==
    IF OdHas(imports, path)
    THEN [i \in 1..Len(imports) |->
            IF imports[i][1] = path THEN <<path, Append(imports[i][2], name)>> ELSE imports[i]]
    ELSE Append(imports, <<path, <<name>>>>)

RECURSIVE SortedNames(_)
\* sorted(names) of a set of names
SortedNames(S) ==
    IF S = {} THEN <<>>
    ELSE LET least == CHOOSE n \in S : \A o \in S \ {n} : StrLess(n, o)
         IN <<least>> \o SortedNames(S \ {least})
Reversed(xs) == [i \in 1..Len(xs) |-> xs[Len(xs) + 1 - i]]
\* list(set(names)): the order follows the string hashes of the process
HashOrdered(order, names) ==
    IF order = "asc" THEN SortedNames({names[i] : i \in 1..Len(names)})
    ELSE Reversed(SortedNames({names[i] : i \in 1..Len(names)}))

\* the lines of a field of a record declaration
FieldLine(field) ==
    <<" ", " ", " ", " ">> \o field.name \o (IF field.required THEN <<>> ELSE <<"?">>) \o <<":", " ">>
    \o field.type \o <<",">>
\* the text appended to self.types for a result without export values,
\* compound or additional code
Declaration(result) ==
    IF result.definition # <<>>
    THEN <<"e", "x", "p", "o", "r", "t", " ", "t", "y", "p", "e", " ">> \o result.type_name \o <<" ", "=", " ">> \o result.definition \o <<";">>
    ELSE Join(<<<<"e", "x", "p", "o", "r", "t", " ", "t", "y", "p", "e", " ">> \o result.type_name \o <<" ", "=", " ", "{">>>>
              \o [i \in 1..Len(result.fields) |-> FieldLine(result.fields[i])]
              \o <<<<"}", ";">>>>, <<"\n">>)

RECURSIVE PmProcess(_, _, _)
RECURSIVE ParsedFrom(_, _, _, _, _)
RECURSIVE PullNames(_, _, _, _, _)
RECURSIVE PullRefs(_, _, _, _)
RECURSIVE PullResults(_, _, _, _)

\* the results of preprocess joined to the parsed types, or its exception
Preprocessed(acc, r) ==
    IF r.exc # "" THEN [acc EXCEPT !.self.exc = r.exc]
    ELSE [acc EXCEPT !.parsed = @ \o r.results]
\* one turn of the loop over result.additionally_load; acc = [self, parsed]
LoadTurn(g, k, owner, acc) ==
    IF owner # "" /\ import_path(g.modules[owner]) # import_path(acc.self)
    THEN [acc EXCEPT !.self.imports = ImportsAppend(@, import_path(g.modules[owner]), TypeName(k))]
    ELSE Preprocessed(acc, preprocess(g.env, k))
RECURSIVE LoadTurns(_, _, _, _)
LoadTurns(g, loads, i, acc) ==
    IF i > Len(loads) \/ acc.self.exc # "" THEN acc
    ELSE LoadTurns(g, loads, i + 1,
                   LoadTurn(g, loads[i], import_from(g, TypeName(loads[i])), acc))
\* self.additional_imports.update(result.additional_imports)
ImportsUpdated(self, result) ==
    IF self.exc # "" THEN self
    ELSE [self EXCEPT !.additional_imports = OdUpdate(@, result.additional_imports)]
\* the loop over additional_parsed_types from element i on
ParsedFrom(g, result, parsed, i, self) ==
    IF i > Len(parsed) \/ self.exc # "" THEN self
    ELSE ParsedFrom(g, result, parsed, i + 1,
                    ImportsUpdated(PmProcess(g, parsed[i], self), result))
ParsedStage(g, result, acc) == ParsedFrom(g, result, acc.parsed, 1, acc.self)

\* for x in pull_from.preprocess(to_add): self.process(x)
PullResults(g, results, i, self) ==
    IF i > Len(results) \/ self.exc # "" THEN self
    ELSE PullResults(g, results, i + 1, PmProcess(g, results[i], self))
PullPreprocessed(g, r, self) ==
    IF r.exc # "" THEN [self EXCEPT !.exc = r.exc] ELSE PullResults(g, r.results, 1, self)
\* the pull of the name n from its owning unit, when one of its entries has
\* that class name (StopIteration otherwise, which is passed over)
Pull(g, n, pull_from, self) ==
    IF pull_from = "" THEN self
    ELSE IF \E j \in 1..Len(g.modules[pull_from].to_process) :
                TypeName(g.modules[pull_from].to_process[j]) = n
         THEN PullPreprocessed(g,
                preprocess(g.env,
                  g.modules[pull_from].to_process[
                    CHOOSE j \in 1..Len(g.modules[pull_from].to_process) :
                      /\ TypeName(g.modules[pull_from].to_process[j]) = n
                      /\ \A l \in 1..(j - 1) :
                            TypeName(g.modules[pull_from].to_process[l]) # n]),
                self)
         ELSE self
\* the loop over actual_names from element j on
PullNames(g, ref, names, j, self) ==
    IF j > Len(names) \/ self.exc # "" THEN self
    ELSE PullNames(g, ref, names, j + 1,
           IF (ref \o <<".">> \o names[j]) \in self.custom_already_pulled THEN self
           ELSE Pull(g, names[j], import_from(g, names[j]),
                     [self EXCEPT !.custom_already_pulled = @ \cup {ref \o <<".">> \o names[j]}]))
\* the loop over self.imports.items() from item i on; size is the length of
\* the dictionary when the iteration began
PullRefs(g, i, size, self) ==
    IF self.exc # "" THEN self
    ELSE IF Len(self.imports) # size THEN [self EXCEPT !.exc = "RuntimeError"]
    ELSE IF i > size THEN self
    ELSE PullRefs(g, i + 1, size,
                  PullNames(g, self.imports[i][1],
                            HashOrdered(g.order, self.imports[i][2]), 1, self))
Pulled(g, self) ==
    IF self.exc = "" /\ self.custom_path THEN PullRefs(g, 1, Len(self.imports), self) ELSE self
Declared_IgnoresOwner(g, result, owner, self) ==
    IF self.exc # "" THEN self
    ELSE [self EXCEPT !.types = Append(@, Declaration(result))]
\* the last step of process: an import edge to the owner or a declaration
Declared(g, result, owner, self) ==
    IF self.exc # "" THEN self
    ELSE IF owner # "" /\ import_path(g.modules[owner]) # import_path(self) /\ ~self.custom_path
    THEN [self EXCEPT !.imports = ImportsAppend(@, import_path(g.modules[owner]), result.type_name)]
    ELSE [self EXCEPT !.types = Append(@, Declaration(result))]
\* PrintableModule.process(result) on the unit self
PmProcess(g, result, self) ==
    IF self.exc # "" \/ result.type_name \in self.already_processed THEN self
    ELSE Declared(g, result, import_from(g, result.type_name),
           Pulled(g,
             ParsedStage(g, result,
               LoadTurns(g, result.additionally_load, 1,
                 [self |-> [self EXCEPT !.already_processed = @ \cup {result.type_name},
                                        !.additional_imports =
                                            OdUpdate(@, result.additional_imports)],
                  parsed |-> <<>>]))))
RECURSIVE DigestFrom(_, _, _)
\* PrintableModule.digest from entry i of to_process on
DigestFrom(g, i, self) ==
    IF i > Len(self.to_process) \/ self.exc # "" THEN self
    ELSE DigestFrom(g, i + 1, PullPreprocessed(g, preprocess(g.env, self.to_process[i]), self))
digest(g, self) == DigestFrom(g, 1, self)

\* the characters str.strip() removes
Whitespace == {" ", "\n", "\t", "\r"}
\* str.strip()
Strip(s) ==
    IF \A i \in 1..Len(s) : s[i] \in Whitespace THEN <<>>
    ELSE SubSeq(s,
                CHOOSE i \in 1..Len(s) :
                   s[i] \notin Whitespace /\ \A j \in 1..(i - 1) : s[j] \in Whitespace,
                CHOOSE i \in 1..Len(s) :
                   s[i] \notin Whitespace /\ \A j \in (i + 1)..Len(s) : s[j] \in Whitespace)
\* the positions of s where old occurs
Occurrences(s, old) ==
    {i \in 1..(Len(s) - Len(old) + 1) : SubSeq(s, i, i + Len(old) - 1) = old}
Least(S) == CHOOSE i \in S : \A j \in S : i <= j
RECURSIVE Replace(_, _, _)
\* the replacement of the occurrence at first and of those in the rest
ReplaceAt(s, old, new, first) ==
    SubSeq(s, 1, first - 1) \o new \o Replace(SubSeq(s, first + Len(old), Len(s)), old, new)
ReplaceIn(s, old, new, found) ==
    IF found = {} THEN s ELSE ReplaceAt(s, old, new, Least(found))
\* str.replace(old, new): the occurrences from the left, not overlapping
Replace(s, old, new) == ReplaceIn(s, old, new, Occurrences(s, old))
\* the position where the line that begins at start ends
LineEnd(s, start) ==
    IF \E e \in start..Len(s) : s[e] = "\n"
    THEN CHOOSE e \in start..Len(s) : s[e] = "\n" /\ \A j \in start..(e - 1) : s[j] # "\n"
    ELSE Len(s)
RECURSIVE KeepEndsFrom(_, _)
LineTo(s, start, end) == <<SubSeq(s, start, end)>> \o KeepEndsFrom(s, end + 1)
\* the lines of s from position start on, with their line ends
KeepEndsFrom(s, start) ==
    IF start > Len(s) THEN <<>> ELSE LineTo(s, start, LineEnd(s, start))
KeepEnds(s) == KeepEndsFrom(s, 1)
\* f.readlines() of a file opened in text mode
readlines(text) == KeepEnds(text)
\* str.splitlines(keepends=True)
splitlines(text) == KeepEnds(text)
\* xs[n:]
SliceFrom(xs, n) == IF n >= Len(xs) THEN <<>> ELSE SubSeq(xs, n + 1, Len(xs))

\* one import line of get_ts for the dictionary item
ImportLine(item) ==
    <<"i", "m", "p", "o", "r", "t", " ", "{", " ">>
    \o Join(SortedNames({item[2][i] : i \in 1..Len(item[2])}), <<",", " ">>)
    \o <<" ", "}", " ", "f", "r", "o", "m", " ", "\"">> \o item[1] \o <<"\"", ";">>
\* the sections of the TypescriptFile that get_ts builds for the unit
get_ts(m) ==
    << IF m.custom_path THEN <<>>
       ELSE << Join([i \in 1..(Len(m.additional_imports) + Len(m.imports)) |->
                        ImportLine((m.additional_imports \o m.imports)[i])], <<"\n">>) >>,
       << Join(m.types, <<"\n", "\n">>) >> >>
\* TypescriptFile.generate_code
generate_code(sections) ==
    Join([i \in 1..Len(sections) |-> Strip(Join(sections[i], <<"\n">>))], <<"\n", "\n">>)
\* TypescriptFile._header
_header ==
    << <<"/", "/", " ", "T", "h", "i", "s", " ", "f", "i", "l", "e", " ", "i", "s", " ", "g", "e", "n", "e", "r", "a", "t", "e", "d", " ", "a", "u", "t", "o", "m", "a", "t", "i", "c", "a", "l", "l", "y", "!", " ", "P", "l", "e", "a", "s", "e", " ", "d", "o", " ", "n", "o", "t", " ", "c", "h", "a", "n", "g", "e", " ", "i", "t", " ", "m", "a", "n", "u", "a", "l", "l", "y">>,
       <<"/", "/", " ", "A", "L", "L", " ", "C", "H", "A", "N", "G", "E", "S", " ", "W", "I", "L", "L", " ", "B", "E", " ", "L", "O", "S", "T">>,
       <<>> >>
\* TypescriptFile.generate
generate(sections, header) ==
    Replace(Strip(Join(header, <<"\n">>) \o generate_code(sections)),
            <<"\n", "\n", "\n">>, <<"\n", "\n">>)
\* what a file that does not exist holds
NoFile == <<"absent">>
\* the comparison of update that leaves the file alone
SameCode(old, new_text, header_lines) ==
    /\ old # NoFile
    /\ SliceFrom(readlines(old), header_lines) = SliceFrom(splitlines(new_text), header_lines)
\* TypescriptFile.update on the file content old: the text generated, the
\* content afterwards and whether write_text ran
Written(old, new_text, same) ==
    [new_text |-> new_text, text |-> IF same THEN old ELSE new_text, wrote |-> ~same]
WriteUnlessSame(old, new_text) ==
    Written(old, new_text, SameCode(old, new_text, Len(_header)))
update(old, sections) == WriteUnlessSame(old, generate(sections, _header))

\* ------------------------------------------------------ inputs of the model
xname == <<"x">>
\* declared types without arguments
ScalarTypes ==
    {T("str"), T("int"), T("float"), T("Decimal"), T("bool"), T("Any"), T("dict"),
     T("Status"), T("Level"), T("date"), T("datetime"), T("Inner")}
\* declared types no handler claims: bytes, and an enum without str/int mixin
UnclaimedTypes == {T("bytes"), T("Color")}
TupleTypes ==
    {G("Tuple", <<T("int"), T("str"), T("bool")>>), G("Tuple", <<T("int"), T("int")>>),
     G("Tuple", <<T("int"), T("bytes")>>)}
\* unions with a None argument
OptionalTypes ==
    {Optional(T("int")), Optional(T("str")), Optional(T("Decimal")),
     Optional(T("Status")), Optional(T("datetime")),
     G("Union", <<T("int"), T("Decimal"), NoneType>>),
     G("Union", <<T("bool"), T("date"), NoneType>>),
     Optional(G("List", <<T("int")>>))}
\* unions without a None argument
PlainUnionTypes ==
    {G("Union", <<T("int"), T("str")>>), G("Union", <<T("str"), T("int")>>),
     G("Union", <<T("int"), T("float")>>), G("Union", <<T("float"), T("int")>>),
     G("Union", <<T("str"), T("Status")>>), G("Union", <<T("Status"), T("str")>>),
     G("Union", <<T("int"), T("Decimal")>>), G("Union", <<T("bool"), T("Decimal")>>),
     G("Union", <<T("bool"), T("Inner")>>), G("Union", <<T("Decimal"), T("str")>>)}
ContainerTypes ==
    {G("List", <<T("int")>>), G("List", <<T("str")>>), G("List", <<Optional(T("int"))>>),
     G("Dict", <<T("str"), T("int")>>), G("Dict", <<T("Status"), T("int")>>),
     G("Dict", <<G("Union", <<T("str"), T("int")>>), T("int")>>),
     G("Dict", <<Optional(T("str")), T("int")>>)}
FieldTypes ==
    ScalarTypes \cup UnclaimedTypes \cup TupleTypes \cup OptionalTypes
      \cup PlainUnionTypes \cup ContainerTypes
\* attrs defaults: none, None, and the string "x"
Defaults == {NOTHING, None, StrV(xname)}

IntList(k) == ListV([i \in 1..k |-> IntV(i)])
RawStrings ==
    {<<>>, active, Active, closed, xname, <<"1", ".", "5">>, <<"1", "/", "5", "/", "2", "0">>,
     <<"1", "2", "/", "3", "1", "/", "9", "9">>, <<"1", "3", "/", "4", "5", "/", "2", "0">>, <<"2", "/", "3", "0", "/", "2", "0">>, <<"1", "/", "5", "/", "5">>,
     <<"1", "/", "5", "/", "2", "0", " ", "1", "0", ":", "3", "0">>, <<"1", "/", "5", "/", "2", "0", " ", "2", "4", ":", "3", "0">>, <<"2", "0", "2", "0", "-", "0", "1", "-", "0", "5">>}
\* raw (JSON-like) inputs, and a few values that are already typed
RawValues ==
    {None, BoolV(TRUE), BoolV(FALSE), FloatV(0), FloatV(2), FloatV(3), NearFloatV(1)}
      \cup {IntV(i) : i \in 0..MaxInt}
      \cup {StrV(cs) : cs \in RawStrings}
      \cup {IntList(k) : k \in 0..MaxLen}
      \cup {ListV(<<IntV(1), StrV(xname), BoolV(TRUE)>>), ListV(<<None>>),
            ListV(<<IntV(1), StrV(xname)>>),
            TupleV(<<IntV(1), IntV(2)>>),
            DictV(<<>>), DictV(<<ItemV(StrV(fname), IntV(1))>>),
            DictV(<<ItemV(StrV(active), IntV(1))>>), DictV(<<ItemV(StrV(Active), IntV(1))>>),
            DictV(<<ItemV(StrV(fname), StrV(xname))>>),
            DictV(<<ItemV(StrV(<<>>), IntV(1))>>),
            DictV(<<ItemV(StrV(active), IntV(1)), ItemV(StrV(closed), IntV(2))>>),
            MemberV("Status", <<"A">>), MemberV("Level", <<"L">>), DecimalV(15)}

\* well-typed live values of a declared type
LiveValues(t) ==
    CASE t = T("str") -> {StrV(<<>>), StrV(xname)}
      [] t = T("int") -> {IntV(0), IntV(1)}
      [] t = T("float") -> {FloatV(3), NearFloatV(1)}
      [] t = T("Decimal") -> {DecimalV(0), DecimalV(15), DecimalV(1)}
      [] t = T("bool") -> {BoolV(TRUE), BoolV(FALSE)}
      [] t = T("Any") -> {IntV(1)}
      [] t = T("dict") -> {DictV(<<ItemV(StrV(xname), IntV(1))>>)}
      [] t = T("Status") -> MembersOf("Status")
      [] t = T("Level") -> MembersOf("Level")
      [] t = T("date") -> {DateV(2020, 1, 5), DateV(2020, 11, 25), DateV(1999, 12, 31)}
      [] t = T("datetime") -> {DateTimeV(2020, 1, 5, 10, 30, 0), DateTimeV(2020, 1, 5, 10, 30, 15)}
      [] t = T("Inner") -> {InstV("Inner", <<ItemV(StrV(fname), IntV(1))>>)}
      [] t = G("Tuple", <<T("int"), T("str"), T("bool")>>) ->
            {TupleV(<<IntV(1), StrV(xname), BoolV(TRUE)>>)}
      [] t = G("Tuple", <<T("int"), T("int")>>) -> {TupleV(<<IntV(1), IntV(2)>>)}
      [] t = Optional(T("int")) -> {None, IntV(1)}
      [] t = Optional(T("str")) -> {None, StrV(xname)}
      [] t = Optional(T("Decimal")) -> {None, DecimalV(15)}
      [] t = Optional(T("Status")) -> {None, MemberV("Status", <<"A">>)}
      [] t = Optional(T("datetime")) -> {None, DateTimeV(2020, 1, 5, 10, 30, 0)}
      [] t = G("Union", <<T("int"), T("Decimal"), NoneType>>) ->
            {None, IntV(1), DecimalV(15), BoolV(TRUE)}
      [] t = G("Union", <<T("bool"), T("date"), NoneType>>) ->
            {None, BoolV(TRUE), DateV(2020, 1, 5), DateTimeV(2020, 1, 5, 10, 30, 0)}
      [] t = Optional(G("List", <<T("int")>>)) -> {None, ListV(<<IntV(1), IntV(2)>>)}
      [] t = G("Union", <<T("int"), T("str")>>) -> {IntV(1), StrV(xname)}
      [] t = G("Union", <<T("str"), T("Status")>>) -> {StrV(xname), MemberV("Status", <<"A">>)}
      [] t = G("Union", <<T("Status"), T("str")>>) -> {StrV(xname), MemberV("Status", <<"A">>)}
      [] t = G("List", <<T("int")>>) -> {ListV(<<>>), ListV(<<IntV(1), IntV(2)>>)}
      [] t = G("List", <<T("str")>>) -> {ListV(<<StrV(xname)>>)}
      [] t = G("List", <<Optional(T("int"))>>) -> {ListV(<<IntV(1), None>>)}
      [] t = G("Dict", <<T("str"), T("int")>>) -> {DictV(<<ItemV(StrV(xname), IntV(1))>>)}
      [] t = G("Dict", <<T("Status"), T("int")>>) ->
            {DictV(<<ItemV(MemberV("Status", <<"A">>), IntV(1))>>)}
      [] OTHER -> {}
\* the declared types the built-in handlers load and represent
BuiltinTypes == {t \in FieldTypes : LiveValues(t) # {}}

\* record classes with the one field f
FieldClass(t, d, custom, omit, force_none) ==
    RecordClass("Rec", <<Attribute(fname, t, d, TRUE)>>, custom, omit, force_none)
CustomLoads == {NoCustom, [x \in {fname} |-> "None"], [x \in {fname} |-> "get"]}
\* record classes with the two optional fields f and g
PairClass(omit, force_none, custom_representation) ==
    WithRepresentation(
        RecordClass("Rec", <<Attribute(fname, Optional(T("int")), None, TRUE),
                             Attribute(gname, Optional(T("str")), None, TRUE)>>,
                    NoCustom, omit, force_none),
        custom_representation)
\* CUSTOM_REPRESENTATION of the pair classes: empty, or a representer for f
CustomRepresentations == {[x \in {} |-> "typed"], [x \in {fname} |-> "typed"]}
\* record classes with a Partial field: alone, and after a required int field
PartialArgs == {<<T("Inner")>>, <<T("int")>>, <<T("Inner"), T("Inner")>>}
PartialRecords ==
    {FieldClass(G("Partial", a), d, NoCustom, {}, {}) : a \in PartialArgs, d \in {NOTHING, None}}
      \cup {RecordClass("Rec", <<Attribute(fname, T("int"), NOTHING, TRUE),
                                 Attribute(gname, G("Partial", a), None, TRUE)>>,
                        NoCustom, {}, {}) : a \in PartialArgs}
NoClass == RecordClass("", <<>>, NoCustom, {}, {})
NoField == Create(<<>>, T("Any"))
NotRepresented == Plain(None)

\* the mappings handed to load_from_dict
RawMappings ==
    {DictV(<<ItemV(StrV(fname), v)>>) : v \in RawValues}
      \cup {DictV(<<>>), DictV(<<ItemV(StrV(gname), IntV(1))>>), None, IntList(1)}
      \cup {DictV(<<ItemV(StrV(fname), v), ItemV(StrV(gname), IntV(1))>>) :
               v \in {IntV(1), StrV(xname)}}
      \cup {DictV(<<ItemV(StrV(gname), IntV(2)), ItemV(StrV(fname), IntV(1))>>)}

\* ------------------------------------------------------------ the machine
\* level: "field" for a call on one handler, "record" for a call on a record
\* fd / cls: the descriptor or the record class of the call
\* live: the live value or instance represent starts from (NOTHING if none)
\* rep: the outcome of represent;  raw: the input of load;  out: its outcome
\* pc: "live" before represent, "raw" before load, "done" after load,
\*     "failed" after a represent that raised
\* ------------------------------------------------- schemas of the generator
DtoA == <<"a", ".", "d", "t", "o">>
DtoB == <<"b", ".", "d", "t", "o">>
\* class Inner(ApiData) of b/dto.py: f: Status
InnerTs(ts_type_name, custom_imports) ==
    TsClass(RecordClass("Inner", <<Attribute(fname, T("Status"), NOTHING, TRUE)>>,
                        NoCustom, {}, {}),
            DtoB, [x \in {} |-> <<>>], <<>>, custom_imports, TRUE, ts_type_name)
\* class Inner(ApiData) of the given module: f of the given type
InnerOf(module, f_type) ==
    TsClass(RecordClass("Inner", <<Attribute(fname, f_type, NOTHING, TRUE)>>,
                        NoCustom, {}, {}),
            module, [x \in {} |-> <<>>], <<>>, <<>>, TRUE, <<>>)
\* class Rec(ApiData) of a/dto.py with the fields f and g
RecTs(f_type, g_type, omit, custom_ts_type, custom_representation, custom_imports,
      defines_ts_type_name) ==
    TsClass(WithRepresentation(
              RecordClass("Rec", <<Attribute(fname, f_type, NOTHING, TRUE),
                                   Attribute(gname, g_type, None, TRUE)>>,
                          NoCustom, omit, {}),
              custom_representation),
            DtoA, custom_ts_type, <<>>, custom_imports, defines_ts_type_name, <<>>)
NoTsType == [x \in {} |-> <<>>]
NoRepresentation == [x \in {} |-> "typed"]
\* Rec with one nested record in two fields, g omitted or given a type string
NestedTwice ==
    { RecTs(T("Inner"), Optional(T("Inner")), {}, NoTsType, NoRepresentation, <<>>, TRUE),
      RecTs(T("Inner"), Optional(T("Inner")), {gname}, NoTsType, NoRepresentation, <<>>, TRUE),
      RecTs(T("Inner"), Optional(T("Inner")), {gname}, [x \in {gname} |-> <<"s", "t", "r", "i", "n", "g">>],
            NoRepresentation, <<>>, TRUE) }
\* CUSTOM_IMPORTS = {"@/b-b": [name]}
CustomImports(name) == << <<<<"@", "/", "b", "-", "b">>, <<name>>>> >>
\* Rec with a nested record and an enum of b/dto.py, without and with CUSTOM_IMPORTS
NestedAndEnum ==
    { RecTs(T("Inner"), T("Status"), {}, NoTsType, NoRepresentation, i, TRUE) :
        i \in {<<>>, CustomImports(<<"H", "e", "l", "p", "e", "r">>)} }
\* Rec with an enum of b/enums.py and an omitted scalar
EnumAndScalar ==
    { RecTs(T("Level"), Optional(T("str")), {gname}, NoTsType, NoRepresentation, <<>>, TRUE),
      RecTs(T("Level"), Optional(T("str")), {gname}, NoTsType,
            [x \in {gname} |-> "typed"], <<>>, TRUE),
      RecTs(T("Level"), Optional(T("str")), {gname}, NoTsType,
            [x \in {fname} |-> "untyped"], <<>>, TRUE),
      RecTs(T("Level"), Optional(T("str")), {gname}, NoTsType, NoRepresentation, <<>>, FALSE),
      RecTs(T("Level"), Optional(T("str")), {}, [x \in {gname} |-> <<"D", "a", "t", "e">>],
            [x \in {gname} |-> "untyped"], <<>>, TRUE),
      RecTs(T("Level"), Optional(T("str")), {}, NoTsType,
            [x \in {fname} |-> "untyped"], <<>>, FALSE) }
SchemaOf(r, n, i) ==
    [schema |-> [k \in {"Rec", "Inner"} |-> IF k = "Rec" THEN r ELSE InnerTs(n, i)],
     also_process_module_keys |-> {}]
\* Rec and Inner with the field types resolved to the classes
Resolved(f_type, g_type, inner) ==
    [schema |-> [k \in {"Rec", "Inner"} |->
                    IF k = "Rec"
                    THEN RecTs(f_type, g_type, {}, NoTsType, NoRepresentation, <<>>, TRUE)
                    ELSE inner],
     also_process_module_keys |-> {}]
\* Inner nested from the module of Rec; Rec that refers to itself; Rec and
\* Inner that refer to each other, from two modules and from one
Nesting ==
    { Resolved(T("Inner"), T("Status"), InnerOf(DtoA, T("Status"))),
      Resolved(T("Inner"), Optional(T("Rec")), InnerOf(DtoB, T("Status"))),
      Resolved(T("Inner"), T("Status"), InnerOf(DtoB, T("Rec"))),
      Resolved(T("Inner"), T("Status"), InnerOf(DtoA, T("Rec"))) }
\* the classes of a run and the ALSO_PROCESS module keys
Schemas ==
    { SchemaOf(r, <<>>, <<>>) : r \in NestedTwice \cup NestedAndEnum \cup EnumAndScalar }
    \cup { SchemaOf(RecTs(T("Inner"), Optional(T("Inner")), {}, NoTsType, NoRepresentation,
                          <<>>, TRUE), <<"I", "n", "n", "e", "r", "T", "S">>, <<>>) }
    \cup { SchemaOf(RecTs(T("Inner"), T("Status"), {}, NoTsType, NoRepresentation,
                          CustomImports(<<"H", "e", "l", "p", "e", "r">>), TRUE), <<>>, CustomImports(<<"O", "t", "h", "e", "r">>)) }
    \cup Nesting
\* the add calls a run may make: (unit, class)
AddChoices == {<<"a", "Rec">>, <<"b", "Inner">>, <<"b", "Status">>, <<"c", "Rec">>,
               <<"a", "Inner">>}
\* the most add calls of a run
MaxAdds == 3
\* the units in the order of repository.modules
ModuleKeys == <<"a", "b", "c">>
NewModule(key) ==
    CASE key = "a" -> PrintableModule(<<"a">>, <<"a", "-">>, FALSE)
      [] key = "b" -> PrintableModule(<<"b">>, <<"b", "-">>, FALSE)
      [] OTHER -> PrintableModule(<<"c">>, <<>>, TRUE)
\* the iteration orders of a set of names that a process may have
HashOrders == {"asc", "desc"}


VARIABLES level, fd, cls, live, rep, raw, out, pc
\* what ApiDataField.processor returned or raised for fd
VARIABLES handler
\* what the process() of that handler returned or raised
VARIABLES processed
\* the generator: the schema, the repository, its units, the files
VARIABLES env, _used_already, modules, order, files, written, generated, run, cur,
          added, gpc
loadvars == <<level, fd, cls, live, rep, raw, out, pc, handler, processed>>
genvars == <<env, _used_already, modules, order, files, written, generated, run, cur,
             added, gpc>>
vars == <<level, fd, cls, live, rep, raw, out, pc, handler, processed,
          env, _used_already, modules, order, files, written, generated, run, cur,
          added, gpc>>

\* ModulesRepository() with the units constructed and nothing added
NewRepository ==
    [modules |-> [key \in {"a", "b", "c"} |-> NewModule(key)],
     used |-> [x \in {} |-> ""]]
\* no generator run
GenIdle ==
    /\ env = [schema |-> <<>>, also_process_module_keys |-> {}]
    /\ _used_already = NewRepository.used /\ modules = NewRepository.modules
    /\ order = "asc" /\ files = [key \in {"a", "b", "c"} |-> NoFile]
    /\ written = {} /\ generated = files /\ run = 0 /\ cur = 1 /\ added = <<>>
    /\ gpc = "idle"

\* a handler is about to load a raw input
InitFieldLoad ==
    /\ level = "field" /\ pc = "raw"
    /\ fd \in {CreateWithDefault(fname, t, d) : t \in FieldTypes, d \in Defaults}
    /\ raw \in RawValues
    /\ cls = NoClass /\ live = NOTHING /\ rep = NotRepresented /\ out = NotRun
\* a handler is about to represent a live value of its type
InitFieldRepresent ==
    /\ level = "field" /\ pc = "live"
    /\ \E t \in BuiltinTypes : \E d \in {NOTHING, None} \cup LiveValues(t) :
          /\ fd = CreateWithDefault(fname, t, d)
          /\ live \in LiveValues(t)
    /\ cls = NoClass /\ raw = None /\ rep = NotRepresented /\ out = NotRun
\* load_from_dict is about to be called with a raw input
InitRecLoad ==
    /\ level = "record" /\ pc = "raw"
    /\ cls \in {FieldClass(t, d, c, {}, {}) : t \in FieldTypes, d \in Defaults, c \in CustomLoads}
                \cup PartialRecords
    /\ raw \in RawMappings
    /\ fd = NoField /\ live = NOTHING /\ rep = NotRepresented /\ out = NotRun
\* represent is about to be called on an instance
InitRecRepresent ==
    /\ level = "record" /\ pc = "live"
    /\ \E t \in BuiltinTypes, o \in SUBSET {fname}, n \in SUBSET {fname} :
          \E d \in {NOTHING, None} \cup LiveValues(t) :
             /\ cls = FieldClass(t, d, NoCustom, o, n)
             /\ \E v \in LiveValues(t) :
                   live = InstV("Rec", <<ItemV(StrV(fname), v)>>)
    /\ fd = NoField /\ raw = None /\ rep = NotRepresented /\ out = NotRun
\* represent is about to be called on an instance of a two-field record
InitPairRepresent ==
    /\ level = "record" /\ pc = "live"
    /\ cls \in {PairClass(o, n, c) : o \in SUBSET {fname, gname},
                                      n \in SUBSET {fname, gname},
                                      c \in CustomRepresentations}
    /\ \E v \in LiveValues(Optional(T("int"))), w \in LiveValues(Optional(T("str"))) :
          live = InstV("Rec", <<ItemV(StrV(fname), v), ItemV(StrV(gname), w)>>)
    /\ fd = NoField /\ raw = None /\ rep = NotRepresented /\ out = NotRun

\* the declared types of the descriptors that are dispatched
DispatchTypes ==
    FieldTypes \cup {T("Inner"), G("Partial", <<T("Inner")>>), G("Partial", <<T("int")>>),
                     G("Partial", <<T("Inner"), T("Inner")>>),
                     G("ForwardRef", <<T("Inner")>>), G("ForwardRef", <<T("int")>>)}
\* descriptors made by FieldDefinition.create, without and with a forced
\* type, and descriptors constructed directly
Descriptors ==
    {FieldDefinition(fname, t, None, f) : t \in DispatchTypes, f \in {<<>>, <<"s">>}}
      \cup {FieldDefinitionOf(fname, T("Inner"), "Partial", a, None, <<>>) :
               a \in {<<T("Inner")>>, <<T("int")>>}}
\* ApiDataField.processor is about to be called with a descriptor
InitDispatch ==
    /\ level = "dispatch" /\ pc = "descriptor"
    /\ fd \in Descriptors
    /\ cls = NoClass /\ live = NOTHING /\ raw = None /\ rep = NotRepresented /\ out = NotRun

Init ==
    /\ InitFieldLoad \/ InitFieldRepresent \/ InitRecLoad \/ InitRecRepresent
         \/ InitPairRepresent \/ InitDispatch
    /\ handler = "" /\ processed = NotProcessed /\ GenIdle

\* handler.represent(exemplar)
FieldRepresent ==
    /\ level = "field" /\ pc = "live"
    /\ rep' = represent(fd, live)
    /\ pc' = IF rep'.exc = "" THEN "raw" ELSE "failed"
    /\ raw' = rep'.val
    /\ UNCHANGED <<level, fd, cls, live, out>>
    /\ UNCHANGED <<handler, processed, genvars>>

\* ApiDataField.processor(fd, tree).load(raw, tree)
FieldLoad ==
    /\ level = "field" /\ pc = "raw"
    /\ out' = load(fd, raw)
    /\ pc' = "done"
    /\ UNCHANGED <<level, fd, cls, live, rep, raw>>
    /\ UNCHANGED <<handler, processed, genvars>>

\* instance.represent()
RecRepresent ==
    /\ level = "record" /\ pc = "live"
    /\ rep' = rec_represent(cls, live)
    /\ pc' = IF rep'.exc = "" THEN "raw" ELSE "failed"
    /\ raw' = rep'.val
    /\ UNCHANGED <<level, fd, cls, live, out>>
    /\ UNCHANGED <<handler, processed, genvars>>

\* cls.load_from_dict(raw)
RecLoad ==
    /\ level = "record" /\ pc = "raw"
    /\ out' = rec_load(cls, raw)
    /\ pc' = "done"
    /\ UNCHANGED <<level, fd, cls, live, rep, raw>>
    /\ UNCHANGED <<handler, processed, genvars>>

\* ApiDataField.processor(fd, tree)
Dispatch ==
    /\ level = "dispatch" /\ pc = "descriptor"
    /\ handler' = processor(fd)
    /\ pc' = "dispatched"
    /\ UNCHANGED <<level, fd, cls, live, rep, raw, out, processed, genvars>>

\* the process() of the handler that processor returned
Process ==
    /\ level = "dispatch" /\ pc = "dispatched"
    /\ processed' = FieldProcessingResultV2(ProcessAs(handler, fd),
                                            IsOptional(handler, fd.type),
                                            additionally_load(handler, fd.type))
    /\ pc' = "processed"
    /\ UNCHANGED <<level, fd, cls, live, rep, raw, out, handler, genvars>>

Next == FieldRepresent \/ FieldLoad \/ RecRepresent \/ RecLoad \/ Dispatch \/ Process

Spec == Init /\ [][Next]_vars

\* ------------------------------------------------------- the generator run
\* PrintableModule.add(to_add) of a class on repo = [modules, used]
AddTo(repo, m, k) ==
    [modules |-> [repo.modules EXCEPT ![m].to_process = Append(@, k)],
     used |-> IF TypeName(k) \in DOMAIN repo.used THEN repo.used
              ELSE repo.used @@ (TypeName(k) :> m)]
RECURSIVE Replay(_, _, _)
\* the add calls of a run made again, from call i on
Replay(adds, i, repo) ==
    IF i > Len(adds) THEN repo
    ELSE Replay(adds, i + 1, AddTo(repo, adds[i][1], adds[i][2]))
\* what process reads of the run
Run == [env |-> env, used |-> _used_already, modules |-> modules, order |-> order]

\* a run starts on a schema with no file written yet
GenInit ==
    /\ env \in Schemas /\ order \in HashOrders
    /\ _used_already = NewRepository.used /\ modules = NewRepository.modules
    /\ files = [key \in {"a", "b", "c"} |-> NoFile]
    /\ written = {} /\ generated = files /\ run = 1 /\ cur = 1 /\ added = <<>>
    /\ gpc = "add" /\ handler = "" /\ processed = NotProcessed
    /\ level = "generator" /\ pc = "idle" /\ fd = NoField /\ cls = NoClass
    /\ live = NOTHING /\ rep = NotRepresented /\ raw = None /\ out = NotRun

\* module.add(x)
Add(m, k) ==
    /\ gpc = "add" /\ Len(added) < MaxAdds
    /\ \A i \in 1..Len(added) : added[i] # <<m, k>>
    /\ modules' = AddTo([modules |-> modules, used |-> _used_already], m, k).modules
    /\ _used_already' = AddTo([modules |-> modules, used |-> _used_already], m, k).used
    /\ added' = Append(added, <<m, k>>)
    /\ UNCHANGED <<env, order, files, written, generated, run, cur, gpc>>
    /\ UNCHANGED loadvars
\* module.set_also_process(keys); module.digest() of the unit the driver is at
Digest ==
    /\ gpc \in {"add", "digest"}
    /\ modules' = [modules EXCEPT ![ModuleKeys[cur]] = digest(Run, modules[ModuleKeys[cur]])]
    /\ gpc' = IF modules'[ModuleKeys[cur]].exc = "" THEN "update" ELSE "failed"
    /\ UNCHANGED <<env, _used_already, order, files, written, generated, run, cur, added>>
    /\ UNCHANGED loadvars
\* the state after module.get_ts().update() returned
Updated(key, updated) ==
    /\ generated' = [generated EXCEPT ![key] = updated.new_text]
    /\ files' = [files EXCEPT ![key] = updated.text]
    /\ written' = IF updated.wrote THEN written \cup {key} ELSE written
\* module.get_ts().update() of the unit the driver is at
Update ==
    /\ gpc = "update"
    /\ Updated(ModuleKeys[cur], update(files[ModuleKeys[cur]], get_ts(modules[ModuleKeys[cur]])))
    /\ cur' = cur + 1
    /\ gpc' = IF cur = Len(ModuleKeys) THEN "done" ELSE "digest"
    /\ UNCHANGED <<env, _used_already, modules, order, run, added>>
    /\ UNCHANGED loadvars
\* the generation is run again on the unchanged schema, in a new process
Rerun ==
    /\ gpc = "done" /\ run = 1
    /\ run' = 2 /\ cur' = 1 /\ gpc' = "digest"
    /\ order' \in HashOrders
    /\ modules' = Replay(added, 1, NewRepository).modules
    /\ _used_already' = Replay(added, 1, NewRepository).used
    /\ written' = {}
    /\ generated' = [key \in {"a", "b", "c"} |-> NoFile]
    /\ UNCHANGED <<env, files, added>>
    /\ UNCHANGED loadvars

GenNext == (\E c \in AddChoices : Add(c[1], c[2])) \/ Digest \/ Update \/ Rerun

GenSpec == GenInit /\ [][GenNext]_vars

\* ------------------------------------------- update of one output file
\* the import edges, import directives and declarations a unit may hold
ImportEdges ==
    {<<>>} \cup {<< <<<<"@", "/", "b", "-", "b">>, names>> >> : names \in {<<<<"I", "n", "n", "e", "r">>>>, <<<<"S", "t", "a", "t", "u", "s">>>>,
                                                          <<<<"I", "n", "n", "e", "r">>, <<"S", "t", "a", "t", "u", "s">>>>}}
ImportDirectives == {<<>>, CustomImports(<<"H", "e", "l", "p", "e", "r">>)}
Declarations ==
    {<<>>, <<<<"e", "x", "p", "o", "r", "t", " ", "t", "y", "p", "e", " ", "S", "t", "a", "t", "u", "s", " ", "=", " ", "1", " ", "|", " ", "2", ";">>>>,
     <<<<"e", "x", "p", "o", "r", "t", " ", "t", "y", "p", "e", " ", "S", "t", "a", "t", "u", "s", " ", "=", " ", "1", " ", "|", " ", "2", ";">>, <<"e", "x", "p", "o", "r", "t", " ", "t", "y", "p", "e", " ", "R", "e", "c", " ", "=", " ", "{", "\n", " ", " ", " ", " ", "f", ":", " ", "S", "t", "a", "t", "u", "s", ",", "\n", "}", ";">>>>,
     <<<<"e", "x", "p", "o", "r", "t", " ", "t", "y", "p", "e", " ", "R", "e", "c", " ", "=", " ", "{", "\n", " ", " ", " ", " ", "f", ":", " ", "S", "t", "a", "t", "u", "s", ",", "\n", "}", ";">>>>}
\* the unit a with that content, without and with a custom path
UnitWith(custom_path, imports, additional_imports, types) ==
    [PrintableModule(<<"a">>, <<"a", "-">>, custom_path) EXCEPT
        !.imports = imports, !.additional_imports = additional_imports, !.types = types]
Units ==
    {UnitWith(p, i, d, t) :
        p \in BOOLEAN, i \in ImportEdges, d \in ImportDirectives, t \in Declarations}
\* what the output file of the unit holds before update: nothing, or the
\* text an earlier generation wrote
ExistingTexts == {NoFile} \cup {generate(get_ts(m), _header) : m \in Units}
\* the unit a is digested and its output file holds an earlier text
UpdInit ==
    /\ env = SchemaOf(RecTs(T("Inner"), T("Status"), {}, NoTsType, NoRepresentation,
                            <<>>, TRUE), <<>>, <<>>)
    /\ order = "asc"
    /\ _used_already = NewRepository.used
    /\ \E m \in Units : modules = [NewRepository.modules EXCEPT !["a"] = m]
    /\ \E old \in ExistingTexts : files = [key \in {"a", "b", "c"} |-> IF key = "a" THEN old ELSE NoFile]
    /\ written = {} /\ generated = [key \in {"a", "b", "c"} |-> NoFile]
    /\ run = 2 /\ cur = 1 /\ added = <<>>
    /\ gpc = "update" /\ handler = "" /\ processed = NotProcessed
    /\ level = "generator" /\ pc = "idle" /\ fd = NoField /\ cls = NoClass
    /\ live = NOTHING /\ rep = NotRepresented /\ raw = None /\ out = NotRun
\* module.get_ts().update() on every such unit and file
UpdSpec == UpdInit /\ [][Update]_vars

\* ------------------------------------------------------------- properties
FieldLoaded == level = "field" /\ pc = "done"
RecordLoaded == level = "record" /\ pc = "done"
NotNoneType(t) == t # NoneType
\* the declared arguments of a union other than None, in declaration order
NonNullArms(t) == SelectSeq(t.args, NotNoneType)
\* what each declared arm's own handler makes of the input
ArmOutcomes(t, input_value) ==
    [i \in 1..Len(NonNullArms(t)) |-> load(Create(<<>>, NonNullArms(t)[i]), input_value)]
\* every declared argument type of the descriptor resolves
ArgsResolve(t) == \A i \in 1..Len(t.args) : process_subclass(t.args[i]).exc = ""

\* the declared types C1 lists: every built-in handler but Any and the raw map
RoundTripTypes == BuiltinTypes \ {T("Any"), T("dict")}

\* C1: representing an instance of a record of built-in field types without
\* custom loaders and loading the result gives back every non-omitted field
\* (an omitted field has a default, so that its absence cannot stop the load)
C1_RoundTrip ==
    (RecordLoaded /\ live # NOTHING /\ cls.custom_load = NoCustom
       /\ (\A i \in 1..Len(cls.fields) : cls.fields[i].type \in RoundTripTypes)
       /\ \A i \in 1..Len(cls.fields) :
             cls.fields[i].name \in cls.omit => cls.fields[i].default # NOTHING) =>
        /\ out.exc = ""
        /\ \A i \in 1..Len(cls.fields) :
              cls.fields[i].name \notin cls.omit =>
                 DictGet(out.val, StrV(cls.fields[i].name))
                   = DictGet(live, StrV(cls.fields[i].name))

\* the outcome of the type-specific rule of each handler on a None input
NoneRuleExc(d) ==
    LET h == processor(d) IN
    CASE h \in {"Any", "Decimal", "Union"} -> ""
      [] h = "Date" -> "TypeError"
      [] h = "Tuple" /\ ~ArgsResolve(d.type) -> "UnknownFieldType"
      [] OTHER -> "LoadError"

\* C2: on every handler, load(None) with a default other than the sentinel
\* returns that default with no arm, element or argument type processed;
\* with the sentinel it goes on to the handler's own rule
C2_DefaultShortCircuit ==
    (FieldLoaded /\ raw = None /\ IsHandler(processor(fd))) =>
        IF fd.default # NOTHING
        THEN out = Returned(fd.default, 0, FALSE)
        ELSE /\ out.exc = NoneRuleExc(fd)
             /\ out.val = None
C2_Witness ==
    /\ FieldLoaded /\ raw = None
    /\ fd.type = G("Tuple", <<T("int"), T("str"), T("bool")>>)
    /\ fd.default = StrV(xname)
    /\ out.val = StrV(xname)

\* a declared Union none of whose arguments is None
DeclaredWithoutNone(t) == t.k = "Union" /\ NonNullArms(t) = t.args

\* the record of the model declares f as a union without None, default "x",
\* and the input mapping has no key f
UnionDefaultCase ==
    /\ RecordLoaded /\ live = NOTHING
    /\ DeclaredWithoutNone(cls.fields[1].type)
    /\ cls.fields[1].default = StrV(xname)
    /\ raw.t = "dict" /\ ~HasKey(raw.xs, StrV(fname))

\* C3 as stated: through load_from_dict such a field loads to "x"
C3_TopLevelUnionDefault ==
    UnionDefaultCase =>
        out.exc = "" /\ DictGet(out.val, StrV(fname)) = StrV(xname)

\* C3 amended: the Union handler's own load returns the default "x" for a
\* None input with no arm tried, while load_from_dict raises UnknownFieldType
\* for the field unless CUSTOM_LOAD lists it, and uses the constructor
\* default "x" when CUSTOM_LOAD lists it with None
C3_UnionDefaultAtHandler ==
    /\ (FieldLoaded /\ DeclaredWithoutNone(fd.type) /\ fd.default = StrV(xname) /\ raw = None)
          => out = Returned(StrV(xname), 0, FALSE)
    /\ (UnionDefaultCase /\ cls.custom_load = NoCustom)
          => out.exc = "UnknownFieldType"
    /\ (UnionDefaultCase /\ cls.custom_load = [x \in {fname} |-> "None"])
          => (out.exc = "" /\ DictGet(out.val, StrV(fname)) = StrV(xname))
C3_Witness ==
    /\ UnionDefaultCase
    /\ cls.fields[1].type = G("Union", <<T("int"), T("str")>>)
    /\ cls.custom_load = NoCustom
    /\ raw = DictV(<<>>)
    /\ out.exc = "UnknownFieldType"

\* C4: a union load returns the decode of the first declared non-null arm
\* that can decode the input, also when that arm is a later one
C4_UnionFirstMatch ==
    (FieldLoaded /\ processor(fd) = "Union" /\ raw # None) =>
        LET outs == ArmOutcomes(fd.type, raw)
            ok == {i \in 1..Len(outs) : outs[i].exc = ""}
        IN ((\A i \in 1..Len(outs) : outs[i].exc \in {"", "LoadError"}) /\ ok # {}) =>
              /\ out.exc = ""
              /\ out.val = outs[CHOOSE i \in ok : \A j \in ok : i <= j].val

\* C5: when no non-null arm decodes a non-null input, the union load raises
\* LoadError, and the error names the arm types that were attempted
C5_UnionAllArmsFail ==
    (FieldLoaded /\ processor(fd) = "Union" /\ raw # None) =>
        LET outs == ArmOutcomes(fd.type, raw)
            tried == _get_union_types(fd).types
        IN (\A i \in 1..Len(outs) : outs[i].exc # "") =>
              /\ out.exc = "LoadError"
              /\ out.names = [j \in 1..Len(tried) |-> TypeName(tried[j].actual_type.k)]

\* C6: Number load turns an int into the float of the same value for a float
\* field and a float into its integer part for an int field, returns an
\* input of the declared type unchanged, and raises LoadError otherwise
C6_NumericCoercion ==
    (FieldLoaded /\ processor(fd) = "Number" /\ ~(raw = None /\ fd.default # NOTHING)) =>
        CASE fd.type = T("float") /\ raw.t = "int" ->
                out.exc = "" /\ out.val.t = "float" /\ out.val.s = <<>>
                  /\ out.val.n = 2 * raw.n
          [] fd.type = T("int") /\ raw.t = "float" ->
                LET den == IF raw.s = <<>> THEN 2 ELSE 10
                IN out.exc = "" /\ out.val.t = "int"
                     /\ out.val.n * den <= raw.n /\ raw.n < (out.val.n + 1) * den
          [] raw.t = fd.type.k -> out.exc = "" /\ out.val = raw
          [] OTHER -> out.exc = "LoadError"
C6_Witness ==
    /\ FieldLoaded /\ fd.type = T("float") /\ raw = IntV(1)
    /\ out.exc = "" /\ out.val = FloatV(2)

\* C7: Tuple load of a list whose length is not the number of declared
\* positions raises LoadError naming the expected and the actual length,
\* with no element decoded
C7_TupleLengthMismatch ==
    (FieldLoaded /\ processor(fd) = "Tuple" /\ ArgsResolve(fd.type)
       /\ raw.t = "list" /\ Len(raw.xs) # Len(fd.type.args)) =>
        /\ out.exc = "LoadError"
        /\ out.kind = "Length Mismatch"
        /\ out.nums = <<Len(fd.type.args), Len(raw.xs)>>
        /\ out.calls = 0
C7_Witness ==
    /\ FieldLoaded /\ fd.type = G("Tuple", <<T("int"), T("str"), T("bool")>>)
    /\ raw = IntList(2)
    /\ out.exc = "LoadError" /\ out.nums = <<3, 2>>

\* C8: Enum load decodes an input equal to a member's value to that member,
\* returns an input that is a member of the enum as it is, and raises
\* LoadError for every other input
C8_EnumLoad ==
    (FieldLoaded /\ processor(fd) = "Enum" /\ ~(raw = None /\ fd.default # NOTHING)) =>
        LET members == MembersOf(fd.type.k)
            byValue == {m \in members : MemberValue(m) = raw}
        IN IF byValue # {} THEN out.exc = "" /\ out.val \in byValue
           ELSE IF raw \in members THEN out.exc = "" /\ out.val = raw
           ELSE out.exc = "LoadError"

\* C9: for every member of an enum the Enum handler claims, represent gives
\* the member's value and loading that value gives the member back
C9_EnumRoundTrip ==
    (FieldLoaded /\ processor(fd) = "Enum" /\ IsEnumMember(live)) =>
        /\ rep = Plain(MemberValue(live))
        /\ out.exc = ""
        /\ out.val = live

\* the text is a date of the format parse_date expects
IsDateText(v, with_time) ==
    /\ v.t = "str"
    /\ IF with_time
       THEN /\ MatchesDateTime(v.s)
            /\ LET halves == SplitOn(v.s, " ")
                   g == SplitOn(halves[1], "/")
                   hm == SplitOn(halves[2], ":")
               IN ValidDateTime(ToInt(YearPrefix \o g[3]), ToInt(g[1]), ToInt(g[2]),
                                ToInt(hm[1]), ToInt(hm[2]))
       ELSE /\ MatchesDate(v.s)
            /\ LET g == SplitOn(v.s, "/")
               IN ValidDate(ToInt(YearPrefix \o g[3]), ToInt(g[1]), ToInt(g[2]))

\* C10: Date/Datetime load never raises on a non-null input that is not a
\* date of the expected format; it returns None
C10_DateLoadNeverRaises ==
    (FieldLoaded /\ processor(fd) = "Date" /\ raw # None
       /\ ~IsDateText(raw, fd.type = T("datetime"))) =>
        out.exc = "" /\ out.val = None

\* C11: a Dict load whose declared key type is one enum class stores every
\* string key that is a member's value under that member, in input order,
\* and raises LoadError when some string key is no member's value
C11_DictKeyCoercion ==
    (FieldLoaded /\ processor(fd) = "Dict" /\ fd.type.args[1].k \in EnumNames
       /\ raw.t = "dict"
       /\ (\A i \in 1..Len(raw.xs) : raw.xs[i].xs[1].t = "str")
       /\ \A i \in 1..Len(raw.xs) :
             load(Create(fname, fd.type.args[2]), raw.xs[i].xs[2]).exc = "") =>
        IF \A i \in 1..Len(raw.xs) :
              \E m \in MembersOf(fd.type.args[1].k) : MemberValue(m) = raw.xs[i].xs[1]
        THEN /\ out.exc = "" /\ out.val.t = "dict" /\ Len(out.val.xs) = Len(raw.xs)
             /\ \A i \in 1..Len(raw.xs) :
                   /\ out.val.xs[i].xs[1] \in MembersOf(fd.type.args[1].k)
                   /\ MemberValue(out.val.xs[i].xs[1]) = raw.xs[i].xs[1]
        ELSE out.exc = "LoadError"

\* the items of a mapping under the key name
ItemsUnder(m, name) == {i \in 1..Len(m.xs) : m.xs[i].xs[1] = StrV(name)}
\* two mappings agree on every constructor field of the record: each field's
\* key is in both with the same value, or in neither
AgreeOnFields(c, m1, m2) ==
    \A i \in 1..Len(c.fields) :
       c.fields[i].init =>
          /\ (ItemsUnder(m1, c.fields[i].name) = {}) = (ItemsUnder(m2, c.fields[i].name) = {})
          /\ \A a \in ItemsUnder(m1, c.fields[i].name), b \in ItemsUnder(m2, c.fields[i].name) :
                m1.xs[a].xs[2] = m2.xs[b].xs[2]

\* C12: for a record without custom loaders, load_from_dict of an input that
\* is not a dict raises LoadError, and every mapping that agrees with the
\* input on the record's constructor fields has the same outcome, whatever
\* other keys the two hold
C12_IgnoresUndeclaredKeys ==
    (RecordLoaded /\ cls.custom_load = NoCustom) =>
        IF raw.t # "dict" THEN out.exc = "LoadError"
        ELSE \A other \in RawMappings :
                (other.t = "dict" /\ AgreeOnFields(cls, raw, other)) =>
                    rec_load(cls, other) = out
C12_Witness ==
    /\ RecordLoaded /\ cls.custom_load = NoCustom
    /\ cls.fields[1].type = T("int")
    /\ raw = DictV(<<ItemV(StrV(gname), IntV(2)), ItemV(StrV(fname), IntV(1))>>)
    /\ AgreeOnFields(cls, raw, DictV(<<ItemV(StrV(fname), IntV(1))>>))
    /\ out.exc = "" /\ out.val = InstV("Rec", <<ItemV(StrV(fname), IntV(1))>>)

\* instance.represent() has returned
RecordRepresented == level = "record" /\ live # NOTHING /\ pc # "live" /\ rep.exc = ""
\* the positions of a field's key in the represented output
KeyPositions(name) == {j \in 1..Len(rep.val.xs) : rep.val.xs[j].xs[1] = StrV(name)}
\* the field at position i of the record is not omitted, and its live value
\* is not None or the field is marked FORCE_NONE
ShouldInclude(i) ==
    /\ cls.fields[i].name \notin cls.omit
    /\ (live.xs[i].xs[2] # None \/ cls.fields[i].name \in cls.force_none)

\* C13: the output of represent has exactly the keys of the fields that are
\* not omitted and are non-null or forced, each once and in declaration
\* order, and an included field with a custom representer holds what that
\* representer returns
C13_RepresentInclusion ==
    RecordRepresented =>
        /\ rep.val.t = "dict"
        /\ \A j \in 1..Len(rep.val.xs) :
              \E i \in 1..Len(cls.fields) : rep.val.xs[j].xs[1] = StrV(cls.fields[i].name)
        /\ \A i \in 1..Len(cls.fields) :
              Cardinality(KeyPositions(cls.fields[i].name)) = IF ShouldInclude(i) THEN 1 ELSE 0
        /\ \A i, k \in 1..Len(cls.fields) :
              (i < k /\ ShouldInclude(i) /\ ShouldInclude(k)) =>
                 \A a \in KeyPositions(cls.fields[i].name), b \in KeyPositions(cls.fields[k].name) :
                    a < b
        /\ \A i \in 1..Len(cls.fields) :
              (ShouldInclude(i) /\ cls.fields[i].name \in DOMAIN cls.custom_representation) =>
                 \A a \in KeyPositions(cls.fields[i].name) : rep.val.xs[a].xs[2] = StrV(xname)
C13_Witness ==
    /\ RecordRepresented
    /\ cls = PairClass({}, {gname}, [x \in {fname} |-> "typed"])
    /\ live = InstV("Rec", <<ItemV(StrV(fname), IntV(1)), ItemV(StrV(gname), None)>>)
    /\ rep.val = DictV(<<ItemV(StrV(fname), StrV(xname)), ItemV(StrV(gname), None)>>)

\* ------------------------------------------------- the generator's claims
\* the declarations of the type named name among the texts of a unit
DeclarationsOf(m, name) ==
    {i \in 1..Len(m.types) : StartsWith(m.types[i], <<"e", "x", "p", "o", "r", "t", " ", "t", "y", "p", "e", " ">> \o name \o <<" ", "=", " ">>)}
\* the declaration text has a field line for the field name
HasFieldLine(text, name) ==
    \E i \in 1..Len(SplitOn(text, "\n")) :
        \/ StartsWith(SplitOn(text, "\n")[i], <<" ", " ", " ", " ">> \o name \o <<":", " ">>)
        \/ StartsWith(SplitOn(text, "\n")[i], <<" ", " ", " ", " ">> \o name \o <<"?", ":", " ">>)
\* the field is listed as omitted and has no custom forced type string
OmittedField(c, name) == name \in c.omit /\ name \notin DOMAIN c.custom_ts_type

\* C14: the declaration generated for a record has no field line for a field
\* listed in the record's omitted-field set, unless a custom forced type
\* string is declared for it, and has a field line for every other field
C14_OmittedFieldsSkipped ==
    \A key \in DOMAIN modules :
       \A i \in DeclarationsOf(modules[key], <<"R", "e", "c">>) :
          \A j \in 1..Len(env.schema["Rec"].fields) :
             HasFieldLine(modules[key].types[i], env.schema["Rec"].fields[j].name)
               <=> ~OmittedField(env.schema["Rec"], env.schema["Rec"].fields[j].name)

\* the lines of a generated text
LinesOf(text) == SplitOn(text, "\n")
IsImportLine(line) == StartsWith(line, <<"i", "m", "p", "o", "r", "t", " ", "{", " ">>)
\* the names between the braces of an import line
NamesOnLine(line) ==
    SplitOn(SelectSeq(SubSeq(line, Len(<<"i", "m", "p", "o", "r", "t", " ", "{", " ">>) + 1,
                             (CHOOSE p \in 1..Len(line) :
                                 line[p] = "}" /\ \A q \in 1..(p - 1) : line[q] # "}") - 1),
                      LAMBDA ch : ch # " "),
            ",")
\* how often the name stands in the import section of the text
ImportOccurrences(text, name) ==
    Cardinality({<<i, j>> \in (1..Len(LinesOf(text))) \X (1..8) :
                   /\ IsImportLine(LinesOf(text)[i])
                   /\ j <= Len(NamesOnLine(LinesOf(text)[i]))
                   /\ NamesOnLine(LinesOf(text)[i])[j] = name})
\* how many declarations of the name the text has
DeclarationCount(text, name) ==
    Cardinality({i \in 1..Len(LinesOf(text)) :
                   StartsWith(LinesOf(text)[i], <<"e", "x", "p", "o", "r", "t", " ", "t", "y", "p", "e", " ">> \o name \o <<" ", "=", " ">>)})
\* the class keys a declared type refers to
RECURSIVE ClassesIn(_)
ClassesIn(t) ==
    IF t.k \in EnumNames \cup {"Inner", "Rec"} THEN {t.k}
    ELSE UNION {ClassesIn(t.args[i]) : i \in 1..Len(t.args)}
\* the nested types that two or more fields of Rec refer to
ReferencedTwice ==
    {k \in EnumNames \cup {"Inner"} :
       Cardinality({j \in 1..Len(env.schema["Rec"].fields) :
                      k \in ClassesIn(env.schema["Rec"].fields[j].type)}) >= 2}
\* the names a class goes by in the output: __name__ and its TS type name
NamesOfClass(k) ==
    {TypeName(k)} \cup (IF k \in EnumNames \/ env.schema[k].ts_type_name = <<>> THEN {}
                       ELSE {env.schema[k].ts_type_name})
Sum2(f, S) == IF S = {} THEN 0 ELSE
    LET a == CHOOSE x \in S : TRUE IN f[a] + (IF S \ {a} = {} THEN 0 ELSE f[CHOOSE y \in S \ {a} : TRUE])
\* declarations plus import occurrences of the class k in the text
Mentions(text, k) ==
    Sum2([n \in NamesOfClass(k) |-> DeclarationCount(text, n) + ImportOccurrences(text, n)],
         NamesOfClass(k))

\* C15: in the text of a unit, a nested type that two or more fields of a
\* record refer to is declared exactly once or stands exactly once in the
\* import section, never both, when the unit declares the record; no unit
\* has more than one such mention
C15_DependencyDedup ==
    \A key \in DOMAIN generated :
       generated[key] # NoFile =>
          \A k \in ReferencedTwice :
             /\ Mentions(generated[key], k) <= 1
             /\ DeclarationCount(generated[key], <<"R", "e", "c">>) > 0
                   => Mentions(generated[key], k) = 1

\* the driver has just updated the unit key
JustUpdated(key) == gpc \in {"digest", "done"} /\ cur > 1 /\ key = ModuleKeys[cur - 1]
\* the unit of the first add call for a class of that name
FirstAdder(name) ==
    added[CHOOSE i \in 1..Len(added) :
             /\ TypeName(added[i][2]) = name
             /\ \A j \in 1..(i - 1) : TypeName(added[j][2]) # name][1]
\* the type names of a field line: the part after ": " without the comma
TypesOnLine(line) ==
    SplitOn(SelectSeq(SubSeq(line,
                             (CHOOSE p \in 1..Len(line) :
                                 line[p] = ":" /\ \A q \in 1..(p - 1) : line[q] # ":") + 1,
                             Len(line) - 1),
                      LAMBDA ch : ch # " "),
            "|")
\* a field line of the text has the name as its type
RefersTo(text, name) ==
    \E i \in 1..Len(LinesOf(text)) :
        /\ StartsWith(LinesOf(text)[i], <<" ", " ", " ", " ">>)
        /\ \E j \in 1..Len(TypesOnLine(LinesOf(text)[i])) :
              TypesOnLine(LinesOf(text)[i])[j] = name
\* the text has an import line that takes the name from the path
HasImportEdge(text, name, path) ==
    \E i \in 1..Len(LinesOf(text)) :
        /\ IsImportLine(LinesOf(text)[i])
        /\ \E j \in 1..Len(NamesOnLine(LinesOf(text)[i])) :
              NamesOnLine(LinesOf(text)[i])[j] = name
        /\ \E p \in 1..Len(LinesOf(text)[i]) :
              SubSeq(LinesOf(text)[i], p, Len(LinesOf(text)[i]))
                 = <<" ", "f", "r", "o", "m", " ", "\"">> \o path \o <<"\"", ";">>
\* a unit other than the owner leaves the declaration of the name to the owner
LeftToOwner(key, name) ==
    /\ DeclarationCount(generated[key], name) = 0
    /\ RefersTo(generated[key], name)
          => HasImportEdge(generated[key], name, import_path(modules[_used_already[name]]))
\* the owner of every added name is the first unit that added it
FirstAdderOwns ==
    /\ DOMAIN _used_already = {TypeName(added[i][2]) : i \in 1..Len(added)}
    /\ \A name \in DOMAIN _used_already : _used_already[name] = FirstAdder(name)

\* C16 as stated: every type name is owned by the first unit that added it,
\* and every other unit, once digested and written, does not declare the
\* name and has an import edge to the owner where it refers to the name
C16_SingleOwnership ==
    /\ FirstAdderOwns
    /\ \A key \in DOMAIN modules :
          JustUpdated(key) =>
             \A name \in DOMAIN _used_already :
                _used_already[name] # key => LeftToOwner(key, name)

\* C16 amended: the same for the units without a custom path (a unit with a
\* custom path pulls and declares the names itself)
C16_SingleOwnershipWithoutCustomPath ==
    /\ FirstAdderOwns
    /\ \A key \in DOMAIN modules :
          JustUpdated(key) /\ ~modules[key].custom_path =>
             \A name \in DOMAIN _used_already :
                _used_already[name] # key => LeftToOwner(key, name)
\* unit a was added Inner after unit b, refers to it from Rec and imports it
C16_Witness ==
    /\ added = << <<"b", "Inner">>, <<"a", "Rec">>, <<"a", "Inner">> >>
    /\ JustUpdated("a")
    /\ _used_already[<<"I", "n", "n", "e", "r">>] = "b"
    /\ RefersTo(generated["a"], <<"I", "n", "n", "e", "r">>)
    /\ HasImportEdge(generated["a"], <<"I", "n", "n", "e", "r">>, import_path(modules["b"]))

\* C17: when the generation runs a second time on the unchanged schema, the
\* text update generates for a unit is the text of the file the first run
\* wrote, and the second run does not write the file
C17_IdempotentOutput ==
    \A key \in DOMAIN modules :
       run = 2 /\ JustUpdated(key) =>
          generated[key] = files[key] /\ key \notin written

\* the module path of an import line: the text between the double quotes
PathOnLine(line) ==
    SubSeq(line,
           (CHOOSE p \in 1..Len(line) : line[p] = "\"" /\ \A q \in 1..(p - 1) : line[q] # "\"") + 1,
           Len(line) - 2)
\* the import lines of a text
ImportLines(text) == SelectSeq(LinesOf(text), IsImportLine)
\* the names of the line are strictly ascending: sorted and without duplicates
SortedWithoutDuplicates(names) ==
    \A i \in 1..(Len(names) - 1) : StrLess(names[i], names[i + 1])

\* C18: in the text of a unit without a custom path every module path stands
\* on at most one import line, and the names of each import line are sorted
\* alphabetically without duplicates
C18_ImportSectionShape ==
    \A key \in DOMAIN modules :
       JustUpdated(key) /\ ~modules[key].custom_path =>
          /\ \A i, j \in 1..Len(ImportLines(generated[key])) :
                i # j => PathOnLine(ImportLines(generated[key])[i])
                           # PathOnLine(ImportLines(generated[key])[j])
          /\ \A i \in 1..Len(ImportLines(generated[key])) :
                SortedWithoutDuplicates(NamesOnLine(ImportLines(generated[key])[i]))

\* ------------------------------------------------------ dispatch and unions
\* the priority order of the variants as the claim lists it
ClaimedOrder ==
    <<"Extra", "Union", "List", "Tuple", "Any", "PlainDict", "Dict", "Str",
      "Number", "Decimal", "Bool", "Enum", "Date", "ForwardRef", "PartialSubclass",
      "Subclass">>
\* the order with NestedRecord ahead of PartialRecord
NestedFirstOrder ==
    <<"Extra", "Union", "List", "Tuple", "Any", "PlainDict", "Dict", "Str",
      "Number", "Decimal", "Bool", "Enum", "Date", "ForwardRef", "Subclass",
      "PartialSubclass">>
\* the predicate of a variant on a descriptor d, as the dispatch list states it
Holds(h, d) ==
    CASE h = "Extra" -> d.forced # <<>>
      [] h \in {"Union", "List", "Tuple", "Dict"} -> d.origin = h
      [] h = "Any" -> d.type.k = "Any"
      [] h = "PlainDict" -> d.type.k = "dict" /\ d.origin = "None"
      [] h = "Str" -> d.type.k = "str"
      [] h = "Number" -> d.type.k \in {"int", "float"}
      [] h = "Decimal" -> d.type.k = "Decimal"
      [] h = "Bool" -> d.type.k = "bool"
      [] h = "Enum" -> d.type.k \in {"Status", "Level"}
      [] h = "Date" -> d.type.k \in {"date", "datetime"}
      [] h = "ForwardRef" -> d.type.k = "ForwardRef" /\ d.type.args = <<T("Inner")>>
      [] h = "PartialSubclass" -> d.origin = "Partial"
      [] OTHER -> d.type = T("Inner")
\* the variant of the earliest predicate of the order that holds of d
FirstMatch(priority, d) ==
    IF \A i \in 1..Len(priority) : ~Holds(priority[i], d) THEN "UnknownFieldType"
    ELSE priority[CHOOSE i \in 1..Len(priority) :
                     Holds(priority[i], d) /\ \A j \in 1..(i - 1) : ~Holds(priority[j], d)]
Dispatched == level = "dispatch" /\ pc = "dispatched"

BadPartial(d) == d.origin = "Partial" /\ d.args # <<T("Inner")>>
ArmsTried(d) == _get_union_types(d).types
\* the load of the arm t alone decodes the input
ArmDecodes(t, input_value) == load(Create(<<>>, t), input_value).exc = ""

\* C20: the failure of an arm never aborts a union load: when an arm fails,
\* in whatever way, the later arms are still tried, so the load of a non-null
\* input succeeds whenever one of the arms decodes the input, and fails only
\* when all of them fail
C20_UnionArmFailureCaught ==
    (FieldLoaded /\ fd.origin = "Union" /\ raw # None /\ _get_union_types(fd).exc = "") =>
       ((\E i \in 1..Len(ArmsTried(fd)) : ArmDecodes(ArmsTried(fd)[i].actual_type, raw))
          => out.exc = "")

\* ------------------------------------------------------- typed-map keys
\* every key of the raw mapping has the runtime type of one of the non-null
\* arms of the declared key type
KeysAmongArms(key_type, items) ==
    \A i \in 1..Len(items) :
       \E j \in 1..Len(NonNullArms(key_type)) :
          NonNullArms(key_type)[j] = T(items[i].xs[1].t)
\* every value of the raw mapping loads under the declared value type
ValuesLoad(value_type, items) ==
    \A i \in 1..Len(items) : load(Create(<<>>, value_type), items[i].xs[2]).exc = ""
\* a typed-map handler with a union key type has loaded a mapping
UnionKeyedLoad ==
    /\ FieldLoaded /\ fd.origin = "Dict" /\ fd.type.args[1].k = "Union"
    /\ raw.t = "dict" /\ raw.xs # <<>>

\* C21: a typed map whose declared key type is a union, with or without a
\* null arm, accepts every key whose runtime type equals one of the union's
\* non-null arms: a mapping of such keys whose values load is loaded
C21_UnionKeyAccepted ==
    (UnionKeyedLoad /\ KeysAmongArms(fd.type.args[1], raw.xs)
       /\ ValuesLoad(fd.type.args[2], raw.xs)) => out.exc = ""

\* ------------------------------------------------------- union represent
\* a handler has represented its live value
FieldRepresented == level = "field" /\ live # NOTHING /\ pc # "live"
\* the declared arm t matches the live value v as the claim says: equal type,
\* generic origin equal to the value's type, or a subclass relation in either
\* direction, and t is not the null type
ClaimedMatch(t, v) ==
    /\ t # NoneType
    /\ \/ t = T(v.t)
       \/ (t.args # <<>> /\ OriginClass(t) = v.t)
       \/ (t.args = <<>> /\ t.k # "Any" /\ (IsSubclass(t.k, v.t) \/ IsSubclass(v.t, t.k)))
\* the positions of the declared arms that match v
MatchingArms(d, v) == {i \in 1..Len(d.args) : ClaimedMatch(d.args[i], v)}
\* the first declared arm that matches v
FirstMatchingArm(d, v) ==
    d.args[CHOOSE i \in MatchingArms(d, v) : \A j \in MatchingArms(d, v) : i <= j]

\* C22: the represent of a union goes through the first declared non-null
\* arm whose type matches the live value's runtime type and returns what that
\* arm's handler represents; it returns null when no declared arm matches
C22_UnionRepresentFirstArm ==
    (FieldRepresented /\ fd.origin = "Union") =>
       rep = IF MatchingArms(fd, live) = {} THEN Plain(None)
             ELSE represent(Create(fd.name, FirstMatchingArm(fd, live)), live)
\* a datetime held by a Union[bool, date, None] field went through the date
\* arm, which it matches as a subclass
C22_Witness ==
    /\ FieldRepresented /\ fd.type = G("Union", <<T("bool"), T("date"), NoneType>>)
    /\ live = DateTimeV(2020, 1, 5, 10, 30, 0)
    /\ rep = Plain(StrV(<<"1", "/", "5", "/", "2", "0">>))
\* a null held by an Optional[int] field matched no arm and gave null
C22_WitnessNull ==
    /\ FieldRepresented /\ fd.type = Optional(T("int")) /\ live = None
    /\ rep = Plain(None)

\* ------------------------------------------------------- type resolution
\* the process() of a dispatched handler has returned or raised
HandlerProcessed == level = "dispatch" /\ pc = "processed"
\* the rendered type strings of the non-null arms of the union descriptor d
RenderedArms(d) ==
    {process_subclass(NonNullArms(d.type)[i]).ts : i \in 1..Len(NonNullArms(d.type))}
\* the pieces of a rendered union between the " | " separators
UnionPieces(text) == [i \in 1..Len(SplitOn(text, "|")) |-> Strip(SplitOn(text, "|")[i])]
\* the declared non-null arms of d as a set
ArmSet(d) == {NonNullArms(d.type)[i] : i \in 1..Len(NonNullArms(d.type))}
\* the union descriptors with the same non-null arms as d, in any order
SameArms(d) ==
    {e \in Descriptors : e.origin = "Union" /\ e.forced = <<>> /\ ArmSet(e) = ArmSet(d)}

\* C23: the rendering of a union is the sorted list, without duplicates, of
\* the rendered strings of its non-null arms joined by " | ", and the optional
\* flag is set exactly when a null arm is declared; every permutation of the
\* same arms renders the same string
C23_UnionRendering ==
    (HandlerProcessed /\ handler = "Union" /\ processed.exc = "") =>
       /\ {UnionPieces(processed.type)[i] : i \in 1..Len(UnionPieces(processed.type))}
             = RenderedArms(fd)
       /\ \A i \in 1..(Len(UnionPieces(processed.type)) - 1) :
             StrLess(UnionPieces(processed.type)[i], UnionPieces(processed.type)[i + 1])
       /\ processed.optional = (\E i \in 1..Len(fd.args) : fd.args[i] = NoneType)
       /\ \A e \in SameArms(fd) : process(e).ts = processed.type
\* Union[str, int] rendered with its arms sorted, as Union[int, str] renders
C23_Witness ==
    /\ HandlerProcessed /\ fd.type = G("Union", <<T("str"), T("int")>>) /\ fd.forced = <<>>
    /\ processed.type = <<"n", "u", "m", "b", "e", "r", " ", "|", " ", "s", "t", "r", "i", "n", "g">> /\ ~processed.optional
    /\ Cardinality(SameArms(fd)) = 2
\* Union[int, float] rendered the one string both arms render
C23_WitnessDedup ==
    /\ HandlerProcessed /\ fd.type = G("Union", <<T("int"), T("float")>>) /\ fd.forced = <<>>
    /\ processed.type = <<"n", "u", "m", "b", "e", "r">>

\* the class a reference descriptor refers to
Referenced(h, d) ==
    CASE h = "ForwardRef" -> d.type.args[1].k
      [] h = "PartialSubclass" -> d.args[1].k
      [] OTHER -> d.type.k
\* the type string the claim gives a reference: the referenced type's own
\* name, wrapped as Partial<Name> for a partial
ReferenceText(h, d) ==
    IF h = "PartialSubclass" THEN <<"P", "a", "r", "t", "i", "a", "l", "<">> \o TypeName(Referenced(h, d)) \o <<">">>
    ELSE TypeName(Referenced(h, d))

\* C24: the process() of an enum, nested-record, forward-reference or partial
\* handler completes, returns the referenced type's own name as the type
\* string (Partial<Name> for a partial) and has the referenced type in its
\* dependency list
C24_ReferenceResolution ==
    (HandlerProcessed /\ handler \in {"Enum", "Subclass", "ForwardRef", "PartialSubclass"}) =>
       /\ processed.exc = ""
       /\ processed.type = ReferenceText(handler, fd)
       /\ \E i \in 1..Len(processed.additionally_load) :
             processed.additionally_load[i] = Referenced(handler, fd)

\* ------------------------------------------------ custom representers
\* the driver has digested the unit key in the current run
Digested(key) ==
    \E i \in 1..Len(ModuleKeys) :
       /\ ModuleKeys[i] = key
       /\ (i < cur \/ (i = cur /\ gpc \in {"update", "failed"}))
\* the unit's digest began with the record Rec
RecResolved(key) ==
    /\ gpc # "idle" /\ Digested(key)
    /\ modules[key].to_process # <<>> /\ modules[key].to_process[1] = "Rec"
\* the text has the line
HasLine(text, line) == \E i \in 1..Len(SplitOn(text, "\n")) : SplitOn(text, "\n")[i] = line
\* every declaration of Rec in the unit m gives the field name the type text
DeclaredAs(m, name, type) ==
    \A i \in DeclarationsOf(m, <<"R", "e", "c">>) :
       HasLine(m.types[i], <<" ", " ", " ", " ">> \o name \o <<":", " ">> \o type \o <<",">>)

\* C25: for a field with a custom representer and no custom forced type
\* string, the resolution of the record fails with FieldWithoutDefinition
\* exactly when the representer declares no return type, and otherwise the
\* field's type is resolved from the return type (str gives string); with a
\* custom forced type string the string is used and the field causes no
\* failure
C25_RepresenterReturnType ==
    \A key \in DOMAIN modules :
       RecResolved(key) =>
          \A j \in 1..Len(env.schema["Rec"].fields) :
             env.schema["Rec"].fields[j].name \in DOMAIN env.schema["Rec"].custom_representation =>
                IF env.schema["Rec"].fields[j].name \in DOMAIN env.schema["Rec"].custom_ts_type
                THEN /\ modules[key].exc # "FieldWithoutDefinition"
                     /\ DeclaredAs(modules[key], env.schema["Rec"].fields[j].name,
                                   env.schema["Rec"].custom_ts_type[env.schema["Rec"].fields[j].name])
                ELSE /\ (modules[key].exc = "FieldWithoutDefinition")
                          <=> (env.schema["Rec"].custom_representation[
                                  env.schema["Rec"].fields[j].name] = "untyped")
                     /\ env.schema["Rec"].custom_representation[
                           env.schema["Rec"].fields[j].name] = "typed"
                          => DeclaredAs(modules[key], env.schema["Rec"].fields[j].name,
                                        <<"s", "t", "r", "i", "n", "g">>)

\* ------------------------------------------------------ partial wrappers
\* a declared Partial type whose arguments are not exactly one record type
MisconfiguredPartial(t) ==
    t.k = "Partial" /\ ~(Len(t.args) = 1 /\ t.args[1] = T("Inner"))
\* the record class declares a misconfigured Partial field
DeclaresMisconfigured(c) ==
    \E i \in 1..Len(c.fields) : MisconfiguredPartial(c.fields[i].type)

\* C26: the load of a record that declares a misconfigured Partial field
\* raises ConfigurationError for every input mapping, whatever the mapping
\* holds
C26_PartialFailsAtSetup ==
    (RecordLoaded /\ DeclaresMisconfigured(cls) /\ raw.t = "dict") =>
       out.exc = "ConfigurationError"

\* ------------------------------------------------------- nested scalars
\* the declared types that require an exact scalar match
ExactScalars == {T("str"), T("bool"), T("int"), T("float")}
\* the raw container holds a null where the declared element type of the
\* list, tuple position or typed-map value is an exact scalar
NullAtScalar(d, v) ==
    \/ d.origin = "List" /\ v.t = "list" /\ d.args[1] \in ExactScalars
         /\ \E i \in 1..Len(v.xs) : v.xs[i] = None
    \/ d.origin = "Tuple" /\ v.t = "list"
         /\ \E i \in 1..Len(v.xs) : i <= Len(d.args) /\ d.args[i] \in ExactScalars /\ v.xs[i] = None
    \/ d.origin = "Dict" /\ v.t = "dict" /\ d.args[2] \in ExactScalars
         /\ \E i \in 1..Len(v.xs) : v.xs[i].xs[2] = None

\* C27: a null element of a list, tuple position or typed-map value whose
\* declared element type is string, boolean or number is rejected with
\* LoadError, as a null input of a required top-level field of that type is
C27_NestedNullRejected ==
    (FieldLoaded /\ live = NOTHING /\ NullAtScalar(fd, raw)) => out.exc = "LoadError"

\* the lines of the text after its two header comment lines
AfterHeader(text) == SliceFrom(splitlines(text), 2)
\* the unit's update of the second run returned without writing
LeftAlone(key) == run = 2 /\ generated[key] # NoFile /\ key \notin written
\* C28: update rewrites the output file whenever the newly generated text
\* differs from the existing file in a line other than the two header comment
\* lines: a file it leaves alone agrees with the generated text in every line
\* after those two, the first one included
C28_RewriteOnChange ==
    \A key \in {"a", "b", "c"} :
        LeftAlone(key) => AfterHeader(files[key]) = AfterHeader(generated[key])

\* the unit holds the import directive (path, name)
HasDirective(m, path, name) ==
    \E i \in 1..Len(m.additional_imports) :
        /\ m.additional_imports[i][1] = path
        /\ \E j \in 1..Len(m.additional_imports[i][2]) : m.additional_imports[i][2][j] = name
\* the unit's digest went through and it processed the record of class k
ProcessedBy(m, k, c) ==
    /\ m.exc = ""
    /\ (IF c.ts_type_name # <<>> THEN c.ts_type_name ELSE TypeName(k)) \in m.already_processed
\* every directive the class declares in CUSTOM_IMPORTS is held by the unit
DirectivesKept(m, c) ==
    \A i \in 1..Len(c.custom_imports) :
        \A j \in 1..Len(c.custom_imports[i][2]) :
            HasDirective(m, c.custom_imports[i][1], c.custom_imports[i][2][j])
\* C29: raw import directives are accumulated without loss: every (module
\* path, name) pair that a record processed by a unit declares is among the
\* unit's import directives, also when two records declare different names
\* for one module path
C29_DirectivesAccumulated ==
    \A key \in {"a", "b", "c"} :
        \A k \in {"Rec", "Inner"} :
            ProcessedBy(modules[key], k, env.schema[k])
                => DirectivesKept(modules[key], env.schema[k])

\* ------------------------------------------------------------ termination
\* the record classes that the fields of the record class k refer to
Refs(e, k) ==
    UNION {ClassesIn(e.schema[k].fields[j].type) : j \in 1..Len(e.schema[k].fields)}
       \cap DOMAIN e.schema
\* the record classes reached from k (the schema has two record classes)
Reach(e, k) == Refs(e, k) \cup UNION {Refs(e, j) : j \in Refs(e, k)}
\* k refers to itself, directly or mutually
OnCycle(e, k) == k \in Reach(e, k)
\* the same along references to record classes of the referring module
SameModuleRefs(e, k) == {j \in Refs(e, k) : e.schema[j].module = e.schema[k].module}
OnEmbeddedCycle(e, k) ==
    k \in SameModuleRefs(e, k) \cup UNION {SameModuleRefs(e, j) : j \in SameModuleRefs(e, k)}
\* the records added to the unit
RecordsOf(m) == {m.to_process[i] : i \in 1..Len(m.to_process)} \cap DOMAIN env.schema
\* the resolution ran out of stack
Unbounded(m) == m.exc = "RecursionError"

\* C30 as stated: process and digest terminate when no record refers to
\* itself, and for a record that refers to itself, directly or mutually,
\* nothing bounds the recursion
C30_Termination ==
    \A key \in {"a", "b", "c"} :
       Digested(key) =>
          /\ (\A k \in DOMAIN env.schema : ~OnCycle(env, k)) => ~Unbounded(modules[key])
          /\ (\E k \in RecordsOf(modules[key]) : OnCycle(env, k)) => Unbounded(modules[key])

\* C30 amended: process and digest terminate when no record refers to itself
\* along references within one module (the references process_additionals
\* embeds), also when records of two modules refer to each other; for a
\* record that refers to itself along such references nothing bounds the
\* recursion
C30_TerminationUnlessEmbeddedCycle ==
    \A key \in {"a", "b", "c"} :
       Digested(key) =>
          /\ (\A k \in DOMAIN env.schema : ~OnEmbeddedCycle(env, k))
                => ~Unbounded(modules[key])
          /\ (\E k \in RecordsOf(modules[key]) : OnEmbeddedCycle(env, k))
                => Unbounded(modules[key])
\* a unit resolved Rec, which refers to itself, and ran out of stack
C30_Witness ==
    /\ Digested("a") /\ "Rec" \in RecordsOf(modules["a"])
    /\ "Rec" \in Refs(env, "Rec") /\ Unbounded(modules["a"])

====
